---- MODULE Spec2Model ----
(***************************************************************************)
(* A model of ruff-cgx: the formatter (src/ruff_cgx/formatter.py), the     *)
(* template formatter (src/ruff_cgx/template_formatter.py), the linter     *)
(* (src/ruff_cgx/linter.py) and their helpers (src/ruff_cgx/utils.py).     *)
(*                                                                         *)
(* Text is a sequence of tokens.  A token is a newline, a unit of          *)
(* whitespace, a script marker, a Python statement or a markup tag; the    *)
(* line/column bookkeeping of the code is kept exactly (lines are split    *)
(* at newlines, line numbers are 1-indexed from the parser and 0-indexed   *)
(* in the slices), a column is the number of tokens before a token on its  *)
(* line.                                                                   *)
(***************************************************************************)
EXTENDS Integers, Sequences, FiniteSets, TLC

VARIABLES
    api,                          \* the entry point under execution
    content,                      \* the text handed to the entry point
    pc,                           \* position inside the entry point
    round,                        \* 1: first call, 2: call on the first call's output
    parsed,                       \* ParsedCGX of content
    source_lines,                 \* content.splitlines(keepends=True), untouched
    lines,                        \* the working list of lines being spliced
    origin,                       \* per element of lines: its index in source_lines + 1, 0 for a replacement line
    formatted_parts,              \* the (replacement, span) pairs still to splice, in splice order
    spans,                        \* every span computed for this call
    needs_newline_at_end_of_file, \* the flag of format_cgx_content / format_file
    result,                       \* the returned text
    outcome,                      \* "none", "returned", "raised"
    first_input,                  \* the content of round 1
    errors_logged,                \* the rounds in which logger.error reported a caught exception
    ruff_available,               \* lint: RuffLinter.ruff_available
    virtual_content,              \* lint: the text handed to the checker
    ruff_diagnostics,             \* lint: the checker's JSON list, 1-indexed rows and columns
    diagnostics,                  \* lint: the returned list of Diagnostic
    attrs,                        \* template: the attribute names of one element, in input order
    emitted,                      \* template: the attribute names in the order format_node emits them
    else_if_first,                \* iteration order of the set {"v-if", "v-else-if", "v-else"}
    key,                          \* attribute: the key given to format_attribute
    value,                        \* attribute: its value, TRUE or a string
    single_attribute,             \* attribute: the flag of format_attribute
    sent,                         \* attribute: the values format_attribute hands to an expression formatter
    attribute_text,               \* attribute: the text format_attribute returns
    ruff_command,                 \* command: the module variable _ruff_command, None or <<command>>
    environ,                      \* command: os.environ["RUFF_COMMAND"], None or <<value>>
    calls,                        \* command: the operations made so far, in order
    got,                          \* command: what the last get_ruff_command() returned, None or <<value>>
    started,                      \* command: the child processes started so far, in order
    compiled,                     \* lint: what the markup compiler gave the synthesis, "none" before it
    paths,                        \* command line: the files of the path list, in order
    configs,                      \* command line: the style configuration of each project root
    modes,                        \* command line: the project roots whose configuration is loaded
    handled,                      \* command line: the files the loop came to, with what happened
    check,                        \* format_file: the check argument
    write,                        \* format_file: the write argument
    disk,                         \* format_file: the text of the file at path
    changed,                      \* format_file: the local of that name
    returned,                     \* format_file: what it returns: "0", "1", "lines", "None"; "none" before
    suffix,                       \* format_file: path.suffix
    given_node,                   \* extract_script_content: its script_node argument
    script_content,               \* extract_script_content: what it returns, None or <<ScriptContent>>
    request,                      \* tool run: the number of the operation under way, 0 before
    temp,                         \* tool run: the temporary files and directories that exist
    invoked                       \* tool run: the child processes of the operation, with their timeouts

vars == <<api, content, pc, round, parsed, source_lines, lines, origin,
          formatted_parts, spans, needs_newline_at_end_of_file, result,
          outcome, first_input, errors_logged, ruff_available, virtual_content,
          ruff_diagnostics, diagnostics,
          attrs, emitted, else_if_first,
          key, value, single_attribute, sent, attribute_text,
          ruff_command, environ, calls, got, started, compiled,
          paths, configs, modes, handled,
          check, write, disk, changed, returned, suffix,
          given_node, script_content, request, temp, invoked>>

lint_vars == <<ruff_available, virtual_content, ruff_diagnostics, diagnostics, compiled>>
template_vars == <<attrs, emitted, else_if_first>>
attribute_vars == <<key, value, single_attribute, sent, attribute_text>>
\* the variables of the operations that are not formatting or linting a document
command_vars == <<ruff_command, environ, calls, got, started>>
batch_vars == <<paths, configs, modes, handled>>
file_vars == <<check, write, disk, changed, returned, suffix>>
extract_vars == <<given_node, script_content>>
tool_vars == <<request, temp, invoked>>
more_vars == <<extract_vars, tool_vars>>
rest_vars == <<attribute_vars, command_vars, batch_vars, file_vars, more_vars>>

---------------------------------------------------------------------------
(* Bounds of the model. *)

MaxItems == 2      \* root-level items of a document
MaxAttrs == 4      \* attributes of an element

---------------------------------------------------------------------------
(* Tokens. *)

NL == "NL"                       \* "\n"
SP == "SP"                       \* one unit of indentation (INDENT)
ScriptOpen == "<script>"
ScriptClose == "</script>"
Hash == "#"                      \* the "#" of a commented-out line

\* Python statements: one unformatted, one already formatted.
RawStmt == "x=1"
Stmts == {"x=1", "x = 1", "y = 2"}

\* Markup: a childless element in formatted and unformatted spelling, and the
\* tags of an element that has children.
ElemSelf == "<node />"
ElemSelfRaw == "<node/>"
ElemOpen == "<other>"
ElemClose == "</other>"

\* Markup with a bound expression, and import statements whose names the
\* code never uses.
ElemBound == "<widget :layout=\"QBoxLayout.Direction\" />"
BoundExpr == "QBoxLayout.Direction"
ImportBox == "from PySide6.QtWidgets import QBoxLayout"
ImportAction == "from PySide6.QtGui import QAction"

None == <<>>

---------------------------------------------------------------------------
(* Strings as token sequences. *)

Max(S) == CHOOSE m \in S : \A n \in S : n <= m
Min(S) == CHOOSE m \in S : \A n \in S : m <= n

RECURSIVE Join(_)
\* "".join(lines)
Join(ls) == IF ls = <<>> THEN <<>> ELSE Head(ls) \o Join(Tail(ls))

RECURSIVE splitlines(_)
\* str.splitlines(keepends=True)
splitlines(s) ==
    IF s = <<>> THEN <<>>
    ELSE LET ends == {k \in 1..Len(s) : s[k] = NL}
         IN IF ends = {} THEN <<s>>
            ELSE LET k == Min(ends)
                 IN <<SubSeq(s, 1, k)>> \o splitlines(SubSeq(s, k + 1, Len(s)))

\* str.endswith("\n")
EndsWithNewline(s) == s # <<>> /\ s[Len(s)] = NL

\* str.strip() is non-empty
HasText(s) == \E k \in 1..Len(s) : s[k] \notin {NL, SP}

\* list slicing: xs[start:end] with 0-indexed bounds, clamped as Python does
Clamp(n, len) == IF n < 0 THEN 0 ELSE IF n > len THEN len ELSE n
Slice(xs, start, end) ==
    LET s == Clamp(start, Len(xs))
        e == Clamp(end, Len(xs))
    IN IF e <= s THEN <<>> ELSE SubSeq(xs, s + 1, e)

\* slice assignment: xs[start:end] = ys
SliceAssign(xs, start, end, ys) ==
    LET s == Clamp(start, Len(xs))
        e0 == Clamp(end, Len(xs))
        e == IF e0 < s THEN s ELSE e0
    IN SubSeq(xs, 1, s) \o ys \o SubSeq(xs, e + 1, Len(xs))

---------------------------------------------------------------------------
(* The markup parser (collagraph's CGXParser), as the code uses it: every  *)
(* node has location = getpos() at its start tag and end = getpos() at its *)
(* end tag, lines 1-indexed, columns 0-indexed.                            *)

LineOf(toks, i) == 1 + Cardinality({k \in 1..(i - 1) : toks[k] = NL})
ColOf(toks, i) == (i - 1) - Max({0} \cup {k \in 1..(i - 1) : toks[k] = NL})
getpos(toks, i) == <<LineOf(toks, i), ColOf(toks, i)>>

FindFrom(toks, i, t) ==
    LET hits == {k \in i..Len(toks) : toks[k] = t}
    IN IF hits = {} THEN 0 ELSE Min(hits)

Node(kind, location, end, children) ==
    [kind |-> kind, location |-> location, end |-> end, children |-> children]

NoNode == Node("none", None, None, <<>>)

RECURSIVE RootChildren(_, _)
\* CGXParser.feed: the children of the root, in document order
RootChildren(toks, i) ==
    IF i > Len(toks) THEN <<>>
    ELSE LET t == toks[i] IN
         IF t \in {NL, SP}
         THEN \* handle_data drops whitespace-only data
              RootChildren(toks, i + 1)
         ELSE IF t = ScriptOpen
         THEN LET j == FindFrom(toks, i + 1, ScriptClose) IN
              IF j = 0
              THEN \* no closing marker: the node never gets an end
                   <<Node("script", getpos(toks, i), None, <<>>)>>
              ELSE LET data == SubSeq(toks, i + 1, j - 1) IN
                   <<Node("script", getpos(toks, i), getpos(toks, j),
                          IF HasText(data) THEN <<data>> ELSE <<>>)>>
                   \o RootChildren(toks, j + 1)
         ELSE IF t \in {ElemSelf, ElemSelfRaw, ElemBound}
         THEN \* handle_startendtag: start and end at the same position
              <<Node("element", getpos(toks, i), getpos(toks, i), <<>>)>>
              \o RootChildren(toks, i + 1)
         ELSE IF t = ElemOpen
         THEN LET j == FindFrom(toks, i + 1, ElemClose) IN
              IF j = 0
              THEN <<Node("element", getpos(toks, i), None, <<>>)>>
              ELSE <<Node("element", getpos(toks, i), getpos(toks, j),
                          SelectSeq(SubSeq(toks, i + 1, j - 1),
                                    LAMBDA c : c \in {ElemSelf, ElemSelfRaw, ElemBound}))>>
                   \o RootChildren(toks, j + 1)
         ELSE \* anything else at root level is text: a TextElement has no end
              <<Node("text", getpos(toks, i), None, <<>>)>>
              \o RootChildren(toks, i + 1)

\* Element.child_with_tag("script")
child_with_tag_script(children) ==
    LET hits == {k \in 1..Len(children) : children[k].kind = "script"}
    IN IF hits = {} THEN NoNode ELSE children[Min(hits)]

\* parse_cgx_file
parse_cgx_file(c) ==
    LET children == RootChildren(c, 1)
    IN [script_node |-> child_with_tag_script(children),
        template_nodes |-> SelectSeq(children, LAMBDA n : n.kind # "script")]

---------------------------------------------------------------------------
(* The external formatter.  run_ruff_format writes the source to a file,   *)
(* runs the tool on it and reads the file back whatever the exit code: a   *)
(* source the tool cannot parse comes back unchanged.                      *)

\* the formatted spelling of one statement
FormatStmt(t) == IF t = RawStmt THEN "x = 1" ELSE t

\* the tool can parse the source: only statements and newlines, one statement per line
ValidPython(src) ==
    /\ \A k \in 1..Len(src) : src[k] \in Stmts \cup {NL}
    /\ \A k \in 1..(Len(src) - 1) : ~(src[k] \in Stmts /\ src[k + 1] \in Stmts)

RECURSIVE CanonicalPython(_)
\* every statement formatted, on a line of its own, blank lines dropped
CanonicalPython(src) ==
    IF src = <<>> THEN <<>>
    ELSE IF Head(src) \in Stmts
         THEN <<FormatStmt(Head(src)), NL>> \o CanonicalPython(Tail(src))
         ELSE CanonicalPython(Tail(src))

\* run_ruff_format(source), the tool being available
run_ruff_format(source) ==
    IF ValidPython(source) THEN CanonicalPython(source) ELSE source

---------------------------------------------------------------------------
(* formatter.py and template_formatter.py: the regions. *)

Part(replacement, start, end) ==
    [replacement |-> replacement, start |-> start, end |-> end]

\* get_script_range(script_node): the lines between the two markers
get_script_range(script_node) ==
    <<script_node.location[1], script_node.end[1] - 1>>

\* format_script_content raises: the node has no end
ScriptRaises(script_node) == script_node.end = None

\* format_script raises (format_file): no node at all, or no end to subscript
FileScriptRaises(script_node) ==
    script_node.kind = "none" \/ script_node.end = None

\* the span format_script_content replaces, for a node with content:
\* (python_start_line, content_end_line)
ScriptSpan(script_node, python_start_line) ==
    <<python_start_line, script_node.end[1] - 1>>

\* format_script_content(script_node, source_lines), not raising
format_script_content(script_node, src_lines) ==
    IF script_node.children = <<>>
    THEN LET r == get_script_range(script_node)
         IN Part(Slice(src_lines, r[1], r[2]), r[1], r[2])
    ELSE LET python_content == script_node.children[1]
             script_tag_line == script_node.location[1] - 1
             starts_on_new_line == Head(python_content) = NL
             python_start_line ==
                 IF starts_on_new_line THEN script_tag_line + 1 ELSE script_tag_line
             source == IF starts_on_new_line THEN Tail(python_content)
                       ELSE python_content
             formatted_lines == splitlines(run_ruff_format(source))
             span == ScriptSpan(script_node, python_start_line)
         IN Part(IF starts_on_new_line THEN formatted_lines
                 ELSE <<<<ScriptOpen, NL>>>> \o formatted_lines,
                 span[1], span[2])

\* format_node(node, depth=0): the lines of a root-level node, without line ends
format_node(node) ==
    IF node.children = <<>>
    THEN <<<<ElemSelf>>>>
    ELSE <<<<ElemOpen>>>>
         \o [k \in 1..Len(node.children) |-> <<SP, ElemSelf>>]
         \o <<<<ElemClose>>>>

\* format_template raises: a TextElement, or a node the parser never closed
TemplateRaises(node) == node.kind = "text" \/ node.end = None

\* format_template(template_node), not raising
format_template(node) ==
    LET rendered == format_node(node)
    IN Part([k \in 1..Len(rendered) |-> rendered[k] \o <<NL>>],
            node.location[1] - 1, node.end[1])

RECURSIVE sorted_by_start(_)
\* sorted(parts, key=lambda x: x[1][0]): stable
sorted_by_start(parts) ==
    IF parts = <<>> THEN <<>>
    ELSE LET least == Min({parts[k].start : k \in 1..Len(parts)})
             i == Min({k \in 1..Len(parts) : parts[k].start = least})
         IN <<parts[i]>>
            \o sorted_by_start(SubSeq(parts, 1, i - 1) \o SubSeq(parts, i + 1, Len(parts)))

reversed(xs) == [k \in 1..Len(xs) |-> xs[Len(xs) + 1 - k]]

\* the order in which the parts are spliced
SpliceOrderAscending(parts) == sorted_by_start(parts)
SpliceOrder(parts) == reversed(sorted_by_start(parts))

\* the parts of one document: the script first, then the template nodes
AllParts(p, src_lines) ==
    <<format_script_content(p.script_node, src_lines)>>
    \o [k \in 1..Len(p.template_nodes) |-> format_template(p.template_nodes[k])]

\* needs_newline_at_end_of_file, as both entry points compute it
NeedsNewline(src_lines) ==
    src_lines # <<>> /\ ~EndsWithNewline(src_lines[Len(src_lines)])

---------------------------------------------------------------------------
(* The documents the entry points are run on. *)

\* the statements of a code region, one per line
Bodies ==
    {<<>>, <<"x=1">>, <<"y = 2">>, <<"x=1", NL, "y = 2">>, <<"y = 2", NL, "x=1">>}

\* a code region: the code may share a line with either marker
ScriptBlocks ==
    {<<ScriptOpen>> \o lead \o body \o trail \o <<ScriptClose>> :
        lead \in {<<>>, <<NL>>},
        body \in Bodies,
        trail \in {<<>>, <<NL>>}}

\* a markup region: one line or three, formatted or not
MarkupBlocks ==
    {<<ElemSelf>>, <<ElemSelfRaw>>,
     <<ElemOpen, NL, SP, ElemSelf, NL, ElemClose>>,
     <<ElemOpen, ElemSelfRaw, ElemClose>>}

Blocks == ScriptBlocks \cup MarkupBlocks
IsScriptBlock(b) == Head(b) = ScriptOpen

\* what separates two root-level items: nothing, a line end, a blank line
Separators == {<<>>, <<NL>>, <<NL, NL>>}

RECURSIVE ItemSequences(_)
\* n root-level items, at most one of them a code region
ItemSequences(n) ==
    IF n = 1 THEN {[text |-> b, has_script |-> IsScriptBlock(b)] : b \in Blocks}
    ELSE {[text |-> x[1].text \o x[2] \o x[3],
           has_script |-> x[1].has_script \/ IsScriptBlock(x[3])] :
            x \in {y \in ItemSequences(n - 1) \X Separators \X Blocks :
                      ~(y[1].has_script /\ IsScriptBlock(y[3]))}}

\* documents the parser cannot close, or with text at root level
Malformed ==
    {<<>>,
     <<ScriptOpen, NL, RawStmt, NL>>,
     <<RawStmt, NL>>,
     <<RawStmt, NL, ScriptOpen, NL, RawStmt, NL, ScriptClose, NL>>}

Documents ==
    Malformed \cup
    UNION {{d.text \o tail : d \in ItemSequences(n), tail \in {<<>>, <<NL>>}} :
              n \in 1..MaxItems}

---------------------------------------------------------------------------
(* The state machine: one call of an entry point, step by step. *)

NoParse == [script_node |-> NoNode, template_nodes |-> <<>>]

Idle ==
    /\ pc = "start"
    /\ round = 1
    /\ parsed = NoParse
    /\ source_lines = <<>>
    /\ lines = <<>>
    /\ origin = <<>>
    /\ formatted_parts = <<>>
    /\ spans = <<>>
    /\ needs_newline_at_end_of_file = FALSE
    /\ result = <<>>
    /\ outcome = "none"
    /\ errors_logged = {}
    /\ virtual_content = <<>>
    /\ ruff_diagnostics = <<>>
    /\ diagnostics = <<>>
    /\ compiled = "none"
    /\ emitted = <<>>

\* no attribute is being formatted
AttributeIdle ==
    /\ key = <<>> /\ value = <<>> /\ single_attribute = TRUE
    /\ sent = <<>> /\ attribute_text = <<>>

\* nothing was configured and no process was started
CommandIdle ==
    /\ ruff_command = None /\ environ = None
    /\ calls = <<>> /\ got = None /\ started = <<>>

\* no command line is running
BatchIdle == paths = <<>> /\ configs = <<>> /\ modes = {} /\ handled = <<>>

\* no file is being formatted with check or write
FileIdle ==
    /\ check = FALSE /\ write = FALSE /\ disk = <<>> /\ suffix = ".cgx"
    /\ changed = FALSE /\ returned = "none"

ExtractIdle == given_node = NoNode /\ script_content = None

ToolIdle == request = 0 /\ temp = {} /\ invoked = <<>>

MoreIdle == ExtractIdle /\ ToolIdle

RestIdle == AttributeIdle /\ CommandIdle /\ BatchIdle /\ FileIdle /\ MoreIdle

InitFormat ==
    /\ api \in {"format_cgx_content", "format_file"}
    /\ content \in Documents
    /\ first_input = content
    /\ ruff_available = TRUE
    /\ attrs = <<>>
    /\ else_if_first = FALSE
    /\ Idle /\ RestIdle

\* an exception that reaches the caller of either entry point
FailPropagates ==
    /\ pc' = "done"
    /\ outcome' = "raised" /\ result' = <<>>
    /\ errors_logged' = errors_logged
\* what an exception does: format_cgx_content catches it and returns the
\* content, format_file lets it through
Fail ==
    /\ pc' = "done"
    /\ IF api = "format_cgx_content"
       THEN outcome' = "returned" /\ result' = content
            /\ errors_logged' = errors_logged \cup {round}
       ELSE outcome' = "raised" /\ result' = <<>>
            /\ errors_logged' = errors_logged

Formatting == api \in {"format_cgx_content", "format_file"}

\* parse_cgx_file(content); lines = content.splitlines(keepends=True)
Parse ==
    /\ Formatting /\ pc = "start" /\ suffix = ".cgx"
    /\ parsed' = parse_cgx_file(content)
    /\ source_lines' = splitlines(content)
    /\ lines' = splitlines(content)
    /\ origin' = [k \in 1..Len(splitlines(content)) |-> k]
    /\ pc' = "parsed"
    /\ UNCHANGED <<api, content, round, formatted_parts, spans,
                   needs_newline_at_end_of_file, result, outcome, first_input, errors_logged,
                   lint_vars, template_vars, rest_vars>>

\* the parser raises
ParseFailed ==
    /\ Formatting /\ pc = "start" /\ suffix = ".cgx"
    /\ Fail
    /\ UNCHANGED <<api, content, round, parsed, source_lines, lines, origin,
                   formatted_parts, spans, needs_newline_at_end_of_file,
                   first_input, lint_vars, template_vars, rest_vars>>

\* format_cgx_content: "if not parsed.script_node: return content"
MissingScript ==
    /\ api = "format_cgx_content" /\ pc = "parsed"
    /\ parsed.script_node.kind = "none"
    /\ pc' = "done" /\ outcome' = "returned" /\ result' = content
    /\ UNCHANGED <<api, content, round, parsed, source_lines, lines, origin,
                   formatted_parts, spans, needs_newline_at_end_of_file,
                   first_input, errors_logged, lint_vars, template_vars, rest_vars>>

\* a region transformation raises
RegionRaises ==
    \/ IF api = "format_file" THEN FileScriptRaises(parsed.script_node)
       ELSE ScriptRaises(parsed.script_node)
    \/ \E k \in 1..Len(parsed.template_nodes) : TemplateRaises(parsed.template_nodes[k])

\* format_file: changed = changed_script or changed_template or
\* needs_newline_at_end_of_file
Changed(parts, src_lines) ==
    \/ \E k \in 1..Len(parts) :
          Slice(src_lines, parts[k].start, parts[k].end) # parts[k].replacement
    \/ NeedsNewline(src_lines)

\* format_script_content / format_script and format_template on every node,
\* the newline flag, the splice order
FormatRegions ==
    /\ Formatting /\ pc = "parsed"
    /\ api = "format_cgx_content" => parsed.script_node.kind # "none"
    /\ ~RegionRaises
    /\ LET parts == AllParts(parsed, lines) IN
       /\ formatted_parts' = SpliceOrder(parts)
       /\ spans' = [k \in 1..Len(parts) |-> <<parts[k].start, parts[k].end>>]
    /\ needs_newline_at_end_of_file' = NeedsNewline(lines)
    /\ changed' = IF api = "format_file"
                  THEN Changed(AllParts(parsed, lines), lines)
                  ELSE changed
    /\ pc' = "splicing"
    /\ UNCHANGED <<api, content, round, parsed, source_lines, lines, origin,
                   result, outcome, first_input, errors_logged, lint_vars, template_vars,
                   attribute_vars, command_vars, batch_vars, more_vars, check, write, disk, returned, suffix>>

\* a region transformation raises: RuntimeError of format_script_content, an
\* AttributeError or TypeError on a missing node or end
RegionFailed ==
    /\ Formatting /\ pc = "parsed"
    /\ api = "format_cgx_content" => parsed.script_node.kind # "none"
    /\ RegionRaises
    /\ Fail
    /\ UNCHANGED <<api, content, round, parsed, source_lines, lines, origin,
                   formatted_parts, spans, needs_newline_at_end_of_file,
                   first_input, lint_vars, template_vars, rest_vars>>

\* the external formatter cannot be started: subprocess.run raises
ToolFailed ==
    /\ Formatting /\ pc = "parsed"
    /\ parsed.script_node.kind = "script"
    /\ parsed.script_node.children # <<>>
    /\ Fail
    /\ UNCHANGED <<api, content, round, parsed, source_lines, lines, origin,
                   formatted_parts, spans, needs_newline_at_end_of_file,
                   first_input, lint_vars, template_vars, rest_vars>>

\* one turn of "for formatted_content, (start, end) in formatted_parts:
\*     lines[start:end] = formatted_content"
Splice ==
    /\ Formatting /\ pc = "splicing" /\ ~check
    /\ formatted_parts # <<>>
    /\ LET part == Head(formatted_parts) IN
       /\ lines' = SliceAssign(lines, part.start, part.end, part.replacement)
       /\ origin' = SliceAssign(origin, part.start, part.end,
                                [k \in 1..Len(part.replacement) |-> 0])
    /\ formatted_parts' = Tail(formatted_parts)
    /\ UNCHANGED <<api, content, pc, round, parsed, source_lines, spans,
                   needs_newline_at_end_of_file, result, outcome, first_input, errors_logged,
                   lint_vars, template_vars, rest_vars>>

\* "if needs_newline_at_end_of_file: lines.append("\n")" and the return
Finish ==
    /\ Formatting /\ pc = "splicing" /\ ~check
    /\ formatted_parts = <<>>
    /\ lines' = IF needs_newline_at_end_of_file THEN Append(lines, <<NL>>) ELSE lines
    /\ origin' = IF needs_newline_at_end_of_file THEN Append(origin, 0) ELSE origin
    /\ result' = Join(lines')
    /\ outcome' = "returned"
    /\ pc' = "done"
    /\ disk' = IF api = "format_file" /\ write /\ changed THEN Join(lines') ELSE disk
    /\ returned' = IF api # "format_file" THEN returned
                   ELSE IF write THEN "0" ELSE "lines"
    /\ UNCHANGED <<api, content, round, parsed, source_lines, formatted_parts,
                   spans, needs_newline_at_end_of_file, first_input, errors_logged,
                   lint_vars, template_vars, attribute_vars, command_vars, batch_vars, more_vars,
                   check, write, changed, suffix>>

\* format_file: "if check: ... return 1 ... return 0", before any splice
CheckReturn ==
    /\ api = "format_file" /\ pc = "splicing" /\ check
    /\ returned' = IF changed THEN "1" ELSE "0"
    /\ outcome' = "returned"
    /\ pc' = "done"
    /\ UNCHANGED <<api, content, round, parsed, source_lines, lines, origin,
                   formatted_parts, spans, needs_newline_at_end_of_file, result,
                   first_input, errors_logged, lint_vars, template_vars,
                   attribute_vars, command_vars, batch_vars, more_vars,
                   check, write, disk, changed, suffix>>

\* the file holds the lines of a run without check, and format_file is
\* called on it with check=True
CheckAgain ==
    /\ api = "format_file" /\ pc = "done"
    /\ round = 1 /\ outcome = "returned" /\ ~check /\ suffix = ".cgx"
    /\ content' = result /\ disk' = result
    /\ check' = TRUE
    /\ round' = 2
    /\ pc' = "start"
    /\ parsed' = NoParse
    /\ source_lines' = <<>> /\ lines' = <<>> /\ origin' = <<>>
    /\ formatted_parts' = <<>> /\ spans' = <<>>
    /\ needs_newline_at_end_of_file' = FALSE
    /\ result' = <<>>
    /\ outcome' = "none"
    /\ changed' = FALSE /\ returned' = "none"
    /\ UNCHANGED <<api, first_input, errors_logged, lint_vars, template_vars,
                   attribute_vars, command_vars, batch_vars, more_vars, write, suffix>>

\* the caller formats the returned text again
Reformat ==
    /\ Formatting /\ pc = "done"
    /\ round = 1 /\ outcome = "returned"
    /\ content' = result
    /\ round' = 2
    /\ pc' = "start"
    /\ parsed' = NoParse
    /\ source_lines' = <<>> /\ lines' = <<>> /\ origin' = <<>>
    /\ formatted_parts' = <<>> /\ spans' = <<>>
    /\ needs_newline_at_end_of_file' = FALSE
    /\ result' = <<>>
    /\ outcome' = "none"
    /\ UNCHANGED <<api, first_input, errors_logged, lint_vars, template_vars, rest_vars>>

Init == InitFormat

Next ==
    \/ Parse
    \/ ParseFailed
    \/ MissingScript
    \/ FormatRegions
    \/ RegionFailed
    \/ ToolFailed
    \/ Splice
    \/ Finish
    \/ Reformat

Spec == Init /\ [][Next]_vars

\* format_file(path, check, write) on a file that holds the content
\* format_file: "if path.suffix != ".cgx": return", before the file is read
NotCgx ==
    /\ api = "format_file" /\ pc = "start" /\ suffix # ".cgx"
    /\ returned' = "None"
    /\ outcome' = "returned"
    /\ pc' = "done"
    /\ UNCHANGED <<api, content, round, parsed, source_lines, lines, origin,
                   formatted_parts, spans, needs_newline_at_end_of_file, result,
                   first_input, errors_logged, lint_vars, template_vars,
                   attribute_vars, command_vars, batch_vars, more_vars,
                   check, write, disk, changed, suffix>>

InitFile ==
    /\ api = "format_file"
    /\ content \in Documents
    /\ first_input = content
    /\ check \in BOOLEAN /\ write \in BOOLEAN
    /\ suffix \in {".cgx", ".py"}
    /\ disk = content
    /\ changed = FALSE /\ returned = "none"
    /\ ruff_available = TRUE
    /\ attrs = <<>>
    /\ else_if_first = FALSE
    /\ Idle /\ AttributeIdle /\ CommandIdle /\ BatchIdle /\ MoreIdle

NextFile ==
    \/ NotCgx
    \/ Parse
    \/ ParseFailed
    \/ FormatRegions
    \/ RegionFailed
    \/ ToolFailed
    \/ CheckReturn
    \/ Splice
    \/ Finish
    \/ CheckAgain

SpecFile == InitFile /\ [][NextFile]_vars

---------------------------------------------------------------------------
(* utils.py: the configured executable; the child processes started.      *)

DefaultCommand == "ruff"

\* get_ruff_command()
get_ruff_command_environ_first ==
    IF environ # None THEN environ[1]
    ELSE IF ruff_command # None THEN ruff_command[1]
    ELSE DefaultCommand
get_ruff_command ==
    IF ruff_command # None THEN ruff_command[1]
    ELSE IF environ # None THEN environ[1]
    ELSE DefaultCommand

\* subprocess.run([executable, ...]); configured: get_ruff_command() then;
\* ended: "exit" with a return code and its report, "no_report" without
\* one, "timeout", or "error" when it could not be run
Process(purpose, executable, ended) ==
    [purpose |-> purpose, executable |-> executable,
     configured |-> get_ruff_command, ended |-> ended]

---------------------------------------------------------------------------
(* linter.py: RuffLinter.lint_cgx_file, one action per way through it. *)

Noqa == "  # noqa"
VirtualClassLine == <<"class VirtualX(X):", NL>>
\* the expressions bound in the markup, as construct_ast puts them into
\* the render method
MarkupExpressions(c) ==
    [k \in 1..Len(SelectSeq(c, LAMBDA t : t = ElemBound)) |-> BoundExpr]
\* render_source, line by line
RenderLines(c) ==
    <<<<"    def render(self):", Noqa, NL>>,
      <<"        return h(">> \o MarkupExpressions(c) \o <<")", Noqa, NL>>>>

\* what the markup compiler (construct_ast) gives _append_render_method
CompilerOutcomes == {"render", "raises", "no_class", "no_render"}

\* the rule codes the checker reports, and those starting with "E" or "F"
Codes == {"F821", "E711", "W605"}
ErrorCodes == {"F821", "E711", "F401"}

Diagnostic(line, column, code, severity) ==
    [line |-> line, column |-> column, code |-> code, severity |-> severity]

\* "line if line.endswith("\n") else line + "\n""
WithLineEnd(l) == IF EndsWithNewline(l) THEN l ELSE l \o <<NL>>

\* script_range = range(start_line, end_line)
script_range(script_node) ==
    {i \in 0..(script_node.end[1] - 2) : script_node.location[1] <= i}

\* modified_lines: every line outside script_range becomes "#\n"
modified_lines(c, script_node) ==
    LET src == splitlines(c) IN
    [k \in 1..Len(src) |->
        IF (k - 1) \in script_range(script_node)
        THEN WithLineEnd(src[k]) ELSE <<Hash, NL>>]

\* _append_render_method(modified_lines, content, file_path)
append_render_method(modified, original_content, tree) ==
    IF tree = "render"
    THEN Join(modified \o <<VirtualClassLine>> \o RenderLines(original_content))
    ELSE Join(modified)

\* the names an import statement binds, the names a token refers to
Imported(t) ==
    IF t = ImportBox THEN {"QBoxLayout"}
    ELSE IF t = ImportAction THEN {"QAction"} ELSE {}
Referenced(t) == IF t = BoundExpr THEN {"QBoxLayout"} ELSE {}

\* the checker's unused-import rule (F401): an import statement on a line
\* without noqa whose name no token of the text refers to
UnusedImportSites(text) ==
    LET ls == splitlines(text)
        used == UNION {Referenced(text[i]) : i \in 1..Len(text)}
    IN UNION {{<<r, c>> : c \in {c \in 1..Len(ls[r]) :
                                  /\ Imported(ls[r][c]) # {}
                                  /\ Imported(ls[r][c]) \cap used = {}
                                  /\ \A j \in 1..Len(ls[r]) : ls[r][j] # Noqa}} :
              r \in 1..Len(ls)}

\* where the checker can find an issue: a statement on a line without noqa
IssueSites(text) ==
    LET ls == splitlines(text) IN
    UNION {{<<r, c>> : c \in {c \in 1..Len(ls[r]) :
                                  /\ ls[r][c] \in Stmts
                                  /\ \A j \in 1..Len(ls[r]) : ls[r][j] # Noqa}} :
           r \in 1..Len(ls)}

\* an entry of the checker's JSON list whose "code" is null (the checker
\* gives a syntax error no rule code), or that has no "code" key
NullCode == "null"
MissingCode == "missing"

\* what the checker reports on a text: the unused imports, and any of the
\* other issue sites under one rule code, some of them without a code
Reports(text) ==
    {{<<s[1], s[2], IF s \in marked THEN special ELSE code>> : s \in sites}
        \cup {<<s[1], s[2], "F401">> : s \in UnusedImportSites(text)} :
     sites \in SUBSET IssueSites(text), code \in Codes,
     marked \in SUBSET IssueSites(text), special \in {NullCode, MissingCode}}

RECURSIVE InRowOrder(_)
\* the checker's JSON list: one entry per reported site, by row and column
InRowOrder(found) ==
    IF found = {} THEN <<>>
    ELSE LET first == CHOOSE x \in found :
                 \A y \in found : x[1] < y[1] \/ (x[1] = y[1] /\ x[2] <= y[2])
         IN <<[row |-> first[1], column |-> first[2], code |-> first[3]]>>
            \o InRowOrder(found \ {first})

SyntheticWarning(code) == <<Diagnostic(0, 0, code, "warning")>>
Synthetic(code) == <<Diagnostic(0, 0, code, "error")>>

\* _run_ruff: the conversion of the JSON list.  diag.get("code", "unknown")
\* gives None for a null code and None.startswith raises AttributeError,
\* which "except Exception" turns into the single ruff-error diagnostic
convert_diagnostics(raw) ==
    IF \E k \in 1..Len(raw) : raw[k].code = NullCode
    THEN Synthetic("ruff-error")
    ELSE [k \in 1..Len(raw) |->
             Diagnostic(raw[k].row - 1, raw[k].column - 1,
                        IF raw[k].code = MissingCode THEN "unknown" ELSE raw[k].code,
                        IF raw[k].code \in ErrorCodes THEN "error" ELSE "warning")]

\* documents of the unused-import test: markup that binds a name or not,
\* import statements after the opening marker or on its line
ImportDocuments ==
    {<<markup, NL, ScriptOpen>> \o lead \o imports \o <<ScriptClose, NL>> :
        markup \in {ElemBound, ElemSelf},
        lead \in {<<>>, <<NL>>},
        imports \in {<<ImportBox, NL>>, <<ImportAction, NL>>,
                     <<ImportBox, NL, ImportAction, NL>>}}

InitLint ==
    /\ api \in {"lint_cgx_file", "lint_file"}
    /\ content \in Documents \cup ImportDocuments
    /\ first_input = content
    /\ ruff_available \in (IF api = "lint_file" THEN {FALSE} ELSE BOOLEAN)
    /\ attrs = <<>>
    /\ else_if_first = FALSE
    /\ Idle /\ RestIdle

Linting == api = "lint_cgx_file" /\ pc = "start"

LintReturn(ds) ==
    /\ diagnostics' = ds
    /\ outcome' = "returned"
    /\ pc' = "done"

LintFrame ==
    UNCHANGED <<api, content, round, source_lines, lines, origin,
                formatted_parts, spans, needs_newline_at_end_of_file, result,
                first_input, errors_logged, ruff_available, template_vars,
                attribute_vars, ruff_command, environ, calls, got, batch_vars, more_vars,
                file_vars>>

\* "if not self.ruff_available: return [Diagnostic(... ruff-unavailable ...)]"
LintUnavailable ==
    /\ Linting /\ ~ruff_available
    /\ LintReturn(Synthetic("ruff-unavailable"))
    /\ LintFrame /\ UNCHANGED <<parsed, virtual_content, ruff_diagnostics, compiled, started>>

\* parser.feed raises
LintParseFailed ==
    /\ Linting /\ ruff_available
    /\ LintReturn(Synthetic("parse-error"))
    /\ LintFrame /\ UNCHANGED <<parsed, virtual_content, ruff_diagnostics, compiled, started>>

\* "if not script_node: return []"
LintNoScript ==
    /\ Linting /\ ruff_available
    /\ parse_cgx_file(content).script_node.kind = "none"
    /\ parsed' = parse_cgx_file(content)
    /\ LintReturn(<<>>)
    /\ LintFrame /\ UNCHANGED <<virtual_content, ruff_diagnostics, compiled, started>>

\* "end_line = script_node.end[0] - 1" on a node without end
LintUnclosedScript ==
    /\ Linting /\ ruff_available
    /\ parse_cgx_file(content).script_node.kind = "script"
    /\ parse_cgx_file(content).script_node.end = None
    /\ parsed' = parse_cgx_file(content)
    /\ diagnostics' = <<>> /\ outcome' = "raised" /\ pc' = "done"
    /\ LintFrame /\ UNCHANGED <<virtual_content, ruff_diagnostics, compiled, started>>

\* the virtual content is made and _run_ruff starts the checker once
LintPrepared(tree, ended) ==
    /\ Linting /\ ruff_available
    /\ parse_cgx_file(content).script_node.kind = "script"
    /\ parse_cgx_file(content).script_node.end # None
    /\ parsed' = parse_cgx_file(content)
    /\ compiled' = tree
    /\ virtual_content' =
         append_render_method(
             modified_lines(content, parse_cgx_file(content).script_node),
             content, tree)
    /\ started' = Append(started, Process("check", DefaultCommand, ended))

\* the checker returns its JSON list
LintChecked ==
    \E tree \in CompilerOutcomes :
        /\ LintPrepared(tree, "exit")
        /\ \E found \in Reports(virtual_content') :
              /\ ruff_diagnostics' = InRowOrder(found)
              /\ LintReturn(convert_diagnostics(ruff_diagnostics'))
        /\ LintFrame

\* the checker prints nothing, or something that is no JSON
LintNoOutput ==
    \E tree \in CompilerOutcomes :
        /\ LintPrepared(tree, "no_report")
        /\ ruff_diagnostics' = <<>>
        /\ LintReturn(<<>>)
        /\ LintFrame

\* subprocess.TimeoutExpired
LintTimeout ==
    \E tree \in CompilerOutcomes :
        /\ LintPrepared(tree, "timeout")
        /\ ruff_diagnostics' = <<>>
        /\ LintReturn(Synthetic("ruff-timeout"))
        /\ LintFrame

\* any other exception of the checker call
LintCheckerError ==
    \E tree \in CompilerOutcomes :
        /\ LintPrepared(tree, "error")
        /\ ruff_diagnostics' = <<>>
        /\ LintReturn(Synthetic("ruff-error"))
        /\ LintFrame

\* lint_file: parser.feed raises, or "script_node.location[0],
\* script_node.end[0] - 1" on no node or on a node without end
LintFileNoRegion ==
    /\ api = "lint_file" /\ pc = "start"
    /\ \/ parsed' = parsed
       \/ /\ \/ parse_cgx_file(content).script_node.kind = "none"
             \/ parse_cgx_file(content).script_node.end = None
          /\ parsed' = parse_cgx_file(content)
    /\ diagnostics' = <<>> /\ outcome' = "raised" /\ pc' = "done"
    /\ LintFrame /\ UNCHANGED <<virtual_content, ruff_diagnostics, compiled, started>>

\* lint_file on a document with a closed script node, up to construct_ast
LintFileCompiled(tree) ==
    /\ api = "lint_file" /\ pc = "start"
    /\ parse_cgx_file(content).script_node.kind = "script"
    /\ parse_cgx_file(content).script_node.end # None
    /\ parsed' = parse_cgx_file(content)
    /\ compiled' = tree
    /\ diagnostics' = <<>> /\ pc' = "done"
    /\ LintFrame

\* lint_file: construct_ast raises, or next(...) finds no class definition
\* or no render method and raises StopIteration
LintFileSynthesisRaised ==
    \E tree \in CompilerOutcomes \ {"render"} :
        /\ LintFileCompiled(tree)
        /\ outcome' = "raised"
        /\ UNCHANGED <<virtual_content, ruff_diagnostics, started>>

\* lint_file: the checker runs on the commented lines, the subclass line
\* and the render lines; its output is printed, its return code returned
LintFileChecked ==
    /\ LintFileCompiled("render")
    /\ virtual_content' =
         Join([k \in 1..Len(splitlines(content)) |->
                 IF (k - 1) \in script_range(parse_cgx_file(content).script_node)
                 THEN splitlines(content)[k] ELSE <<Hash, NL>>]
              \o <<VirtualClassLine>> \o RenderLines(content))
    /\ \E found \in Reports(virtual_content') :
          ruff_diagnostics' = InRowOrder(found)
    /\ started' = Append(started, Process("check", DefaultCommand, "exit"))
    /\ outcome' = "returned"

\* lint_file: subprocess.run finds no executable
LintFileToolMissing ==
    /\ LintFileCompiled("render")
    /\ started' = Append(started, Process("check", DefaultCommand, "error"))
    /\ outcome' = "raised"
    /\ UNCHANGED <<virtual_content, ruff_diagnostics>>

NextLint ==
    \/ LintFileNoRegion
    \/ LintFileSynthesisRaised
    \/ LintFileChecked
    \/ LintFileToolMissing
    \/ LintUnavailable
    \/ LintParseFailed
    \/ LintNoScript
    \/ LintUnclosedScript
    \/ LintChecked
    \/ LintNoOutput
    \/ LintTimeout
    \/ LintCheckerError

SpecLint == InitLint /\ [][NextLint]_vars

---------------------------------------------------------------------------
(* template_formatter.py: sort_attr and the attribute order of format_node.*)
(* A name is a sequence of characters; keys compare as Python strings do,  *)
(* character by character in code-point order.                             *)

\* the characters of the names and keys, in code-point order
CodePointOrder ==
    <<"#", "-", "0", "1", "2", "3", "4", "5", "6", "7", ":", "@",
      "a", "b", "c", "d", "e", "f", "i", "k", "l", "m", "n", "o", "r", "s",
      "t", "u", "v", "x", "y">>
OrdTable ==
    [ch \in {CodePointOrder[k] : k \in 1..Len(CodePointOrder)} |->
        CHOOSE k \in 1..Len(CodePointOrder) : CodePointOrder[k] = ch]
Ord(ch) == OrdTable[ch]

RECURSIVE StrLess(_, _)
\* a < b for Python strings
StrLess(a, b) ==
    IF b = <<>> THEN FALSE
    ELSE IF a = <<>> THEN TRUE
    ELSE IF Head(a) # Head(b) THEN Ord(Head(a)) < Ord(Head(b))
    ELSE StrLess(Tail(a), Tail(b))

\* str.startswith(prefix)
startswith(a, prefix) ==
    Len(prefix) <= Len(a) /\ SubSeq(a, 1, Len(prefix)) = prefix

RECURSIVE lstrip(_, _)
\* str.lstrip(chars): drops leading characters that occur in chars
lstrip(a, chars) ==
    IF a # <<>> /\ (\E k \in 1..Len(chars) : chars[k] = Head(a))
    THEN lstrip(Tail(a), chars) ELSE a

\* SORTING, a list of sets of prefixes
SORTING ==
    <<{<<"v", "-", "i", "s">>},
      {<<"v", "-", "f", "o", "r">>},
      {<<"v", "-", "i", "f">>, <<"v", "-", "e", "l", "s", "e", "-", "i", "f">>, <<"v", "-", "e", "l", "s", "e">>},
      {<<"i", "d">>, <<"r", "e", "f">>, <<"k", "e", "y">>},
      {<<"v", "-", "s", "l", "o", "t">>, <<"#">>},
      {<<"v", "-", "b", "i", "n", "d">>, <<":">>},
      {<<"v", "-", "o", "n">>, <<"@">>}>>
\* list.index, 0-indexed
index(xs, x) == Min({k \in 1..Len(xs) : xs[k] = x}) - 1
OTHER_ATTR == index(SORTING, {<<"v", "-", "b", "i", "n", "d">>, <<":">>})
UNIQUE_ATTR == index(SORTING, {<<"i", "d">>, <<"r", "e", "f">>, <<"k", "e", "y">>})

\* str(idx)
Digit(idx) == CodePointOrder[idx + 3]

\* the prefix of bucket idx (0-indexed) that the inner loop reaches first among
\* those attr starts with; the iteration order of a set of strings is not
\* fixed, elif_first tells that "v-else-if" comes before "v-else"
FirstMatch(attr, idx, elif_first) ==
    LET hits == {q \in SORTING[idx + 1] : startswith(attr, q)}
        shortest == CHOOSE q \in hits : \A r \in hits : Len(q) <= Len(r)
        longest == CHOOSE q \in hits : \A r \in hits : Len(r) <= Len(q)
    IN IF elif_first THEN longest ELSE shortest

\* sort_attr(attr)
sort_attr_plain_last(attr, elif_first) ==
    LET matching ==
            {idx \in 0..(Len(SORTING) - 1) :
                IF idx # UNIQUE_ATTR
                THEN \E q \in SORTING[idx + 1] : startswith(attr, q)
                ELSE attr \in SORTING[idx + 1]}
    IN IF matching # {}
       THEN LET idx == Min(matching) IN
            IF idx # UNIQUE_ATTR
            THEN <<Digit(idx)>> \o lstrip(attr, FirstMatch(attr, idx, elif_first))
            ELSE <<Digit(idx)>> \o attr
       ELSE <<Digit(Len(SORTING))>> \o attr
sort_attr(attr, elif_first) ==
    LET matching ==
            {idx \in 0..(Len(SORTING) - 1) :
                IF idx # UNIQUE_ATTR
                THEN \E q \in SORTING[idx + 1] : startswith(attr, q)
                ELSE attr \in SORTING[idx + 1]}
    IN IF matching # {}
       THEN LET idx == Min(matching) IN
            IF idx # UNIQUE_ATTR
            THEN <<Digit(idx)>> \o lstrip(attr, FirstMatch(attr, idx, elif_first))
            ELSE <<Digit(idx)>> \o attr
       ELSE IF ~startswith(attr, <<"v", "-">>)
            THEN <<Digit(OTHER_ATTR)>> \o attr
            ELSE <<Digit(Len(SORTING))>> \o attr

\* the attribute names elements are built from
AttrClass == <<"c", "l", "a", "s", "s">>
AttrDisabled == <<"d", "i", "s", "a", "b", "l", "e", "d">>
AttrBoundValue == <<":", "v", "a", "l", "u", "e">>
AttrClick == <<"@", "c", "l", "i", "c", "k">>
AttrValue == <<"v", "a", "l", "u", "e">>
AttrIf == <<"v", "-", "i", "f">>
AttrElseIf == <<"v", "-", "e", "l", "s", "e", "-", "i", "f">>
AttrId == <<"i", "d">>
AttrModel == <<"v", "-", "m", "o", "d", "e", "l">>
AttrFor == <<"v", "-", "f", "o", "r">>
AttrSlot == <<"#", "x">>
AttrIs == <<"v", "-", "i", "s">>
AttrNames ==
    {AttrClass, AttrDisabled, AttrBoundValue, AttrClick,
     AttrValue, AttrIf, AttrElseIf, AttrId,
     AttrModel, AttrFor, AttrSlot, AttrIs}

\* sort_attr of every name, for either iteration order
KeyTable == [e \in BOOLEAN |-> [a \in AttrNames |-> sort_attr(a, e)]]

\* where a name's key stands among the keys in string order; equal keys
\* stand at the same place
KeyRank ==
    [e \in BOOLEAN |-> [a \in AttrNames |->
        Cardinality({b \in AttrNames : StrLess(KeyTable[e][b], KeyTable[e][a])})]]

\* sorted(node.attrs, key=sort_attr): by key, equal keys in input order
unsorted(names, elif_first) == names
RECURSIVE sorted_ties_reversed(_, _)
sorted_ties_reversed(names, elif_first) ==
    IF names = <<>> THEN <<>>
    ELSE LET rank == KeyRank[elif_first]
             rest == sorted_ties_reversed(Tail(names), elif_first)
             before == Cardinality({k \in 1..Len(rest) :
                                       rank[rest[k]] <= rank[Head(names)]})
         IN SubSeq(rest, 1, before) \o <<Head(names)>>
                \o SubSeq(rest, before + 1, Len(rest))
RECURSIVE sorted_by_key(_, _)
sorted_by_key(names, elif_first) ==
    IF names = <<>> THEN <<>>
    ELSE LET rank == KeyRank[elif_first]
             rest == sorted_by_key(Tail(names), elif_first)
             smaller == Cardinality({k \in 1..Len(rest) :
                                        rank[rest[k]] < rank[Head(names)]})
         IN SubSeq(rest, 1, smaller) \o <<Head(names)>>
                \o SubSeq(rest, smaller + 1, Len(rest))

\* format_node: the attribute names in the order they are emitted
attribute_order(names, elif_first) ==
    IF Len(names) <= 1 THEN names ELSE sorted_by_key(names, elif_first)

InitTemplate ==
    /\ api = "format_node"
    /\ attrs \in UNION {{l \in [1..n -> AttrNames] :
                            \A j, k \in 1..n : l[j] = l[k] => j = k} :
                          n \in 1..MaxAttrs}
    /\ else_if_first \in BOOLEAN
    /\ content = <<>>
    /\ first_input = <<>>
    /\ ruff_available = TRUE
    /\ Idle /\ RestIdle

\* format_node on an element with these attributes
FormatNode ==
    /\ api = "format_node" /\ pc = "start"
    /\ emitted' = attribute_order(attrs, else_if_first)
    /\ pc' = "done"
    /\ outcome' = "returned"
    /\ UNCHANGED <<api, content, round, parsed, source_lines, lines, origin,
                   formatted_parts, spans, needs_newline_at_end_of_file, result,
                   first_input, errors_logged, ruff_available, virtual_content,
                   ruff_diagnostics, diagnostics, compiled, attrs, else_if_first, rest_vars>>

NextTemplate == FormatNode

SpecTemplate == InitTemplate /\ [][NextTemplate]_vars

---------------------------------------------------------------------------
(* template_formatter.py: format_attribute and the expression formatters.  *)
(* A value is a sequence of tokens: spaces, line ends, expressions.        *)

Dummy == "__dummy__ = "
In == " in "
EqualsQuote == "=\""
Quote == "\""
\* the value of an attribute written without one, and str() of it
PyTrue == <<"True (bool)">>
TrueText == <<"True">>

\* expressions, before and after ruff's formatting with single quotes
Exprs == {"a+b", "a + b", "{ item }", "{item}", "f(\"s\")", "f('s')", "x", "xs"}
\* text ruff cannot parse as an expression
BadExpr == "a +"
FormatExpr(t) ==
    CASE t = "a+b" -> "a + b"
      [] t = "{ item }" -> "{item}"
      [] t = "f(\"s\")" -> "f('s')"
      [] OTHER -> t

\* run_ruff_format(wrapped, use_single_quotes=True): ruff rewrites the file
\* when it can parse it and leaves it alone when it cannot
run_ruff_format_single_quotes(source) ==
    IF Len(source) = 2 /\ source[1] = Dummy /\ source[2] \in Exprs
    THEN <<Dummy, FormatExpr(source[2]), NL>>
    ELSE source

RECURSIVE rstrip(_, _)
\* str.rstrip(chars)
rstrip(a, chars) ==
    IF a # <<>> /\ (\E k \in 1..Len(chars) : chars[k] = a[Len(a)])
    THEN rstrip(SubSeq(a, 1, Len(a) - 1), chars) ELSE a
\* str.strip()
strip(a) == rstrip(lstrip(a, <<SP, NL>>), <<SP, NL>>)

\* format_python_expression(expr); tool_ok: the formatter could be started
format_python_expression(expr, tool_ok) ==
    IF ~HasText(expr) THEN expr
    ELSE IF ~tool_ok THEN expr
    ELSE LET formatted == run_ruff_format_single_quotes(<<Dummy>> \o expr)
         IN IF Head(formatted) = Dummy
            THEN rstrip(Tail(formatted), <<NL>>)
            ELSE expr

\* str.split(" in ", 1)
split_in(expr) ==
    IF \E k \in 1..Len(expr) : expr[k] = In
    THEN LET k == Min({j \in 1..Len(expr) : expr[j] = In})
         IN <<SubSeq(expr, 1, k - 1), SubSeq(expr, k + 1, Len(expr))>>
    ELSE <<expr>>

\* format_list_expression(expr)
format_list_expression(expr, tool_ok) ==
    IF ~HasText(expr) THEN expr
    ELSE LET parts == split_in(strip(expr))
         IN IF Len(parts) # 2 THEN strip(expr)
            ELSE format_python_expression(strip(parts[1]), tool_ok)
                 \o <<In>>
                 \o format_python_expression(strip(parts[2]), tool_ok)

\* textwrap.indent(text, prefix) of a text of one line
indent_text(text, prefix) == IF HasText(text) THEN prefix \o text ELSE text

\* key.startswith((":", "@")) and key.startswith((":", "@", "v-"))
IsBinding(k) == startswith(k, <<":">>) \/ startswith(k, <<"@">>)
IsExpressionKey(k) == IsBinding(k) \/ startswith(k, <<"v", "-">>)

\* the keys and values format_attribute is called with
AttrVSlot == <<"v", "-", "s", "l", "o", "t">>
AttrKeys == AttrNames \cup {AttrVSlot}
AttrValues ==
    {PyTrue, <<>>, <<SP>>}
    \cup UNION {{<<e>>, <<SP, e>>, <<e, SP>>, <<"x", In, e>>, <<SP, "x", In, e, SP>>} :
                  e \in Exprs \cup {BadExpr}}

InitAttribute ==
    /\ api = "format_attribute"
    /\ key \in AttrKeys
    /\ value \in AttrValues
    /\ single_attribute \in BOOLEAN
    /\ sent = <<>> /\ attribute_text = <<>>
    /\ content = <<>> /\ first_input = <<>>
    /\ ruff_available = TRUE
    /\ attrs = <<>> /\ else_if_first = FALSE
    /\ Idle /\ CommandIdle /\ BatchIdle /\ FileIdle /\ MoreIdle

AttributeFrame ==
    /\ pc' = "done"
    /\ outcome' = "returned"
    /\ UNCHANGED <<api, content, round, parsed, source_lines, lines, origin,
                   formatted_parts, spans, needs_newline_at_end_of_file, result,
                   first_input, errors_logged, lint_vars, template_vars,
                   key, value, single_attribute, command_vars, batch_vars, more_vars,
                   file_vars>>

\* "if value is True: return key"
AttributeBare ==
    /\ api = "format_attribute" /\ pc = "start"
    /\ ~IsBinding(key) /\ value = PyTrue
    /\ attribute_text' = key
    /\ sent' = sent
    /\ AttributeFrame

\* the value of a binding, an event or a directive, formatted
AttributeExpression ==
    /\ api = "format_attribute" /\ pc = "start"
    /\ ~(~IsBinding(key) /\ value = PyTrue)
    /\ IsExpressionKey(key) /\ value # PyTrue /\ HasText(value)
    /\ \E tool_ok \in BOOLEAN, indent \in {<<>>, <<SP>>} :
          IF startswith(key, <<"v", "-", "f", "o", "r">>)
          THEN /\ attribute_text' =
                      key \o <<EqualsQuote>>
                          \o format_list_expression(strip(value), tool_ok) \o <<Quote>>
               /\ sent' = <<strip(value)>>
          ELSE /\ attribute_text' =
                      key \o <<EqualsQuote>>
                          \o lstrip(indent_text(
                                 format_python_expression(strip(value), tool_ok),
                                 indent \o (IF single_attribute THEN <<>> ELSE <<SP>>)),
                               <<SP, NL>>)
                          \o <<Quote>>
               /\ sent' = <<strip(value)>>
    /\ AttributeFrame

\* "return f'{key}="{value}"'"
AttributeVerbatim ==
    /\ api = "format_attribute" /\ pc = "start"
    /\ ~(~IsBinding(key) /\ value = PyTrue)
    /\ ~(IsExpressionKey(key) /\ value # PyTrue /\ HasText(value))
    /\ attribute_text' =
          key \o <<EqualsQuote>> \o (IF value = PyTrue THEN TrueText ELSE value)
              \o <<Quote>>
    /\ sent' = sent
    /\ AttributeFrame

NextAttribute ==
    \/ AttributeBare
    \/ AttributeExpression
    \/ AttributeVerbatim

SpecAttribute == InitAttribute /\ [][NextAttribute]_vars

---------------------------------------------------------------------------
(* utils.py: the configured executable, and the child processes that the  *)
(* format and lint operations start.                                      *)

MaxCalls == 3      \* operations in one run

Commands == {"/programmatic/ruff", ""}
EnvironValues == {"/env/ruff", ""}

Call(op, arg) == [op |-> op, arg |-> arg]

InitCommand ==
    /\ api = "ruff_command"
    /\ ruff_command = None
    /\ environ \in {None} \cup {<<v>> : v \in EnvironValues}
    /\ calls = <<Call("environ", environ)>>
    /\ got = None /\ started = <<>>
    /\ content = <<>> /\ first_input = <<>>
    /\ ruff_available = FALSE
    /\ attrs = <<>> /\ else_if_first = FALSE
    /\ Idle /\ AttributeIdle /\ BatchIdle /\ FileIdle /\ MoreIdle

\* one more operation of the run
CommandStep(op, arg) ==
    /\ api = "ruff_command" /\ Len(calls) <= MaxCalls
    /\ calls' = Append(calls, Call(op, arg))
    /\ UNCHANGED <<api, content, pc, round, parsed, source_lines, lines, origin,
                   formatted_parts, spans, needs_newline_at_end_of_file, result,
                   outcome, first_input, errors_logged, virtual_content,
                   ruff_diagnostics, diagnostics, compiled, template_vars,
                   attribute_vars, batch_vars, more_vars, file_vars>>

\* set_ruff_command(command)
SetRuffCommand ==
    \E command \in Commands :
        /\ CommandStep("set_ruff_command", <<command>>)
        /\ ruff_command' = <<command>>
        /\ UNCHANGED <<environ, got, started, ruff_available>>

\* reset_ruff_command()
ResetRuffCommand ==
    /\ CommandStep("reset_ruff_command", None)
    /\ ruff_command' = None
    /\ UNCHANGED <<environ, got, started, ruff_available>>

\* os.environ["RUFF_COMMAND"] = v, os.environ.pop("RUFF_COMMAND", None)
ChangeEnviron ==
    \E v \in {None} \cup {<<e>> : e \in EnvironValues} :
        /\ CommandStep("environ", v)
        /\ environ' = v
        /\ UNCHANGED <<ruff_command, got, started, ruff_available>>

\* a caller asks get_ruff_command()
GetRuffCommand ==
    /\ CommandStep("get_ruff_command", None)
    /\ got' = <<get_ruff_command>>
    /\ UNCHANGED <<ruff_command, environ, started, ruff_available>>

\* run_ruff_format: the settings probe of is_isort_configured, the
\* import-sorting run when it is configured, the formatter run
RunRuffFormat ==
    \E should_sort_imports \in BOOLEAN :
        /\ CommandStep("run_ruff_format", None)
        /\ started' = started
              \o <<Process("settings", DefaultCommand, "exit")>>
              \o (IF should_sort_imports
                  THEN <<Process("sort-imports", get_ruff_command, "exit")>> ELSE <<>>)
              \o <<Process("format", get_ruff_command, "exit")>>
        /\ UNCHANGED <<ruff_command, environ, got, ruff_available>>

\* run_ruff_check
RunRuffCheck ==
    /\ CommandStep("run_ruff_check", None)
    /\ started' = Append(started, Process("check", get_ruff_command, "exit"))
    /\ UNCHANGED <<ruff_command, environ, got, ruff_available>>

\* RuffLinter(): _check_ruff_available
CheckRuffAvailable ==
    \E available \in BOOLEAN :
        /\ CommandStep("RuffLinter", None)
        /\ started' = Append(started, Process("available", DefaultCommand,
                                               IF available THEN "exit" ELSE "error"))
        /\ ruff_available' = available
        /\ UNCHANGED <<ruff_command, environ, got>>

\* RuffLinter.lint_cgx_file on a document with a code region: _run_ruff
RunRuff ==
    /\ ruff_available
    /\ CommandStep("lint_cgx_file", None)
    /\ started' = Append(started, Process("check", DefaultCommand, "exit"))
    /\ UNCHANGED <<ruff_command, environ, got, ruff_available>>

\* lint_file: the checker run of the command line
LintFileRun ==
    /\ CommandStep("lint_file", None)
    /\ started' = Append(started, Process("check", DefaultCommand, "exit"))
    /\ UNCHANGED <<ruff_command, environ, got, ruff_available>>

NextCommand ==
    \/ SetRuffCommand
    \/ ResetRuffCommand
    \/ ChangeEnviron
    \/ GetRuffCommand
    \/ RunRuffFormat
    \/ RunRuffCheck
    \/ CheckRuffAvailable
    \/ RunRuff
    \/ LintFileRun

SpecCommand == InitCommand /\ [][NextCommand]_vars

---------------------------------------------------------------------------
(* __main__.py: main, the loop of the command line over the path list.    *)

MaxPaths == 3      \* files in one path list

\* what a file of the path list is like when its turn comes
FileKinds ==
    {"ok", "no_script", "empty_script", "parse_failure", "synthesis_failure",
     "tool_unavailable"}

\* format_file(path): the exit code it returns, or "raised" when
\* parse_cgx_file raises, format_script reads the children of no node, or
\* run_ruff_format cannot start the formatter
format_file(kind) ==
    IF kind \in {"parse_failure", "no_script", "tool_unavailable"}
    THEN {"raised"}
    ELSE {"0", "1"}

\* lint_file(path): the checker's return code, or "raised"; an empty code
\* region has no class definition for next(...) to find
lint_file(kind) ==
    IF kind \in {"parse_failure", "no_script", "empty_script",
                 "synthesis_failure", "tool_unavailable"}
    THEN {"raised"}
    ELSE {"0", "1"}

\* method = {"format": format_file, "check": lint_file}[args.command]
method(command, kind) ==
    IF command = "format" THEN format_file(kind) ELSE lint_file(kind)

RECURSIVE PathLists(_, _)
\* the lists of n files
PathLists(kinds, n) ==
    IF n = 0 THEN {<<>>}
    ELSE {Append(l, k) : l \in PathLists(kinds, n - 1), k \in kinds}

\* the state of everything that is not the command line's own
BatchRest ==
    /\ content = <<>> /\ first_input = <<>>
    /\ ruff_available = FALSE
    /\ attrs = <<>> /\ else_if_first = FALSE
    /\ Idle /\ AttributeIdle /\ CommandIdle /\ FileIdle /\ MoreIdle

InitBatch ==
    /\ api \in {"format", "check"}
    /\ paths \in UNION {PathLists(FileKinds, n) : n \in 1..MaxPaths}
    /\ configs = <<>> /\ modes = {} /\ handled = <<>>
    /\ BatchRest

BatchFrame ==
    UNCHANGED <<api, content, round, parsed, source_lines, lines, origin,
                formatted_parts, spans, needs_newline_at_end_of_file, result,
                first_input, errors_logged, lint_vars, template_vars,
                attribute_vars, command_vars, paths, configs, file_vars, more_vars>>

\* "code |= method(path, **method_arguments)" returns
MainFile ==
    /\ api \in {"format", "check"} /\ pc = "start"
    /\ Len(handled) < Len(paths)
    /\ \E code \in method(api, paths[Len(handled) + 1]) \ {"raised"} :
          handled' = Append(handled, [file |-> Len(handled) + 1, result |-> code])
    /\ UNCHANGED <<pc, outcome, modes>>
    /\ BatchFrame

\* method(path, ...) raises: nothing in main catches it
MainFileRaised ==
    /\ api \in {"format", "check"} /\ pc = "start"
    /\ Len(handled) < Len(paths)
    /\ "raised" \in method(api, paths[Len(handled) + 1])
    /\ handled' = Append(handled, [file |-> Len(handled) + 1, result |-> "raised"])
    /\ pc' = "done" /\ outcome' = "raised"
    /\ UNCHANGED modes
    /\ BatchFrame

\* the loop is over: "if code: exit(code)"
MainExit ==
    /\ api \in {"format", "check"} /\ pc = "start"
    /\ Len(handled) = Len(paths)
    /\ pc' = "done" /\ outcome' = "returned"
    /\ UNCHANGED <<handled, modes>>
    /\ BatchFrame

NextBatch ==
    \/ MainFile
    \/ MainFileRaised
    \/ MainExit

SpecBatch == InitBatch /\ [][NextBatch]_vars

---------------------------------------------------------------------------
(* src/ruff_cgx.py: main of the black-based command line, which loads the *)
(* style configuration of a project root when the first file of that root *)
(* comes.                                                                 *)

Roots == {"one", "two"}
ConfigStates == {"absent", "valid", "malformed"}

InitBlack ==
    /\ api = "black"
    /\ paths \in UNION {PathLists(Roots, n) : n \in 1..MaxPaths}
    /\ configs \in [Roots -> ConfigStates]
    /\ modes = {} /\ handled = <<>>
    /\ BatchRest

\* load_black_mode(path, modes) raises BadBlackConfig
BlackConfigRaised ==
    /\ api = "black" /\ pc = "start"
    /\ Len(handled) < Len(paths)
    /\ paths[Len(handled) + 1] \notin modes
    /\ configs[paths[Len(handled) + 1]] = "malformed"
    /\ handled' = Append(handled, [file |-> Len(handled) + 1,
                                   result |-> "BadBlackConfig"])
    /\ pc' = "done" /\ outcome' = "raised"
    /\ UNCHANGED modes
    /\ BatchFrame

\* "code |= format_file(path, mode=load_black_mode(path, modes), ...)"
BlackFormatFile ==
    /\ api = "black" /\ pc = "start"
    /\ Len(handled) < Len(paths)
    /\ paths[Len(handled) + 1] \in modes
       \/ configs[paths[Len(handled) + 1]] # "malformed"
    /\ modes' = modes \cup {paths[Len(handled) + 1]}
    /\ \E code \in {"0", "1"} :
          handled' = Append(handled, [file |-> Len(handled) + 1, result |-> code])
    /\ UNCHANGED <<pc, outcome>>
    /\ BatchFrame

\* the loop is over: "if code: exit(code)"
BlackExit ==
    /\ api = "black" /\ pc = "start"
    /\ Len(handled) = Len(paths)
    /\ pc' = "done" /\ outcome' = "returned"
    /\ UNCHANGED <<handled, modes>>
    /\ BatchFrame

NextBlack ==
    \/ BlackConfigRaised
    \/ BlackFormatFile
    \/ BlackExit

SpecBlack == InitBlack /\ [][NextBlack]_vars

---------------------------------------------------------------------------
(* extract_script_content: the text of a code region and where it lies.   *)

ScriptContent(python_code, start_line, end_line, starts_on_new_line, closing_tag_inline) ==
    [python_code |-> python_code, start_line |-> start_line, end_line |-> end_line,
     starts_on_new_line |-> starts_on_new_line,
     closing_tag_inline |-> closing_tag_inline]

\* extract_script_content without the strip() of the content
extract_script_content_unstripped(script_node) ==
    IF script_node.children = <<>> THEN None
    ELSE LET script_child == script_node.children[1]
             script_tag_line == script_node.location[1] - 1
             end_line == script_node.end[1] - 1
             starts_on_new_line == script_child # <<>> /\ Head(script_child) = NL
             python_content ==
                 IF starts_on_new_line THEN Tail(script_child) ELSE script_child
         IN <<ScriptContent(
                IF python_content # <<>> /\ ~EndsWithNewline(python_content)
                THEN python_content \o <<NL>> ELSE python_content,
                IF starts_on_new_line THEN script_tag_line + 1 ELSE script_tag_line,
                end_line, starts_on_new_line, script_node.end[2] > 0)>>

\* extract_script_content(script_node): None, or <<ScriptContent>>
extract_script_content(script_node) ==
    IF script_node.children = <<>> THEN None
    ELSE LET script_child == script_node.children[1]
             script_tag_line == script_node.location[1] - 1
             end_line == script_node.end[1] - 1
             starts_on_new_line == script_child # <<>> /\ Head(script_child) = NL
             python_content ==
                 strip(IF starts_on_new_line THEN Tail(script_child) ELSE script_child)
         IN <<ScriptContent(
                IF python_content # <<>> /\ ~EndsWithNewline(python_content)
                THEN python_content \o <<NL>> ELSE python_content,
                IF starts_on_new_line THEN script_tag_line + 1 ELSE script_tag_line,
                end_line, starts_on_new_line, script_node.end[2] > 0)>>

\* what stands between the opening marker and the code, and after the code
Leads == {<<>>, <<NL>>, <<SP>>, <<NL, NL>>, <<NL, SP>>, <<SP, NL>>}
Trails == {<<>>, <<NL>>, <<SP>>, <<NL, NL>>}

\* the data between the two markers
RawContents ==
    {lead \o body \o trail :
        lead \in Leads,
        body \in {<<>>, <<"x=1">>, <<"x=1", NL, "y = 2">>},
        trail \in Trails}

\* what precedes the opening marker in the document
Prefixes == {<<>>, <<NL>>, <<ElemSelf, NL>>}

\* the code node the parser gives for a document with that data
ParsedScript(prefix, raw) ==
    parse_cgx_file(prefix \o <<ScriptOpen>> \o raw \o <<ScriptClose>>).script_node

\* the code nodes extract_script_content is given: those of the parser, and
\* those a caller built with a TextElement the parser would have dropped
ScriptNodes ==
    {ParsedScript(prefix, raw) : prefix \in Prefixes, raw \in RawContents}
    \cup {[ParsedScript(prefix, raw) EXCEPT !.children = <<raw>>] :
             prefix \in Prefixes, raw \in {r \in RawContents : ~HasText(r)}}

InitExtract ==
    /\ api = "extract_script_content"
    /\ given_node \in ScriptNodes
    /\ script_content = None
    /\ content = <<>>
    /\ first_input = content
    /\ ruff_available = TRUE
    /\ attrs = <<>>
    /\ else_if_first = FALSE
    /\ Idle /\ AttributeIdle /\ CommandIdle /\ BatchIdle /\ FileIdle /\ ToolIdle

\* one call of extract_script_content
ExtractScriptContent ==
    /\ api = "extract_script_content" /\ pc = "start"
    /\ script_content' = extract_script_content(given_node)
    /\ outcome' = "returned"
    /\ pc' = "done"
    /\ UNCHANGED <<api, content, round, parsed, source_lines, lines, origin,
                   formatted_parts, spans, needs_newline_at_end_of_file, result,
                   first_input, errors_logged, lint_vars, template_vars,
                   attribute_vars, command_vars, batch_vars, file_vars, given_node,
                   tool_vars>>

NextExtract == ExtractScriptContent

SpecExtract == InitExtract /\ [][NextExtract]_vars

---------------------------------------------------------------------------
(* The operations that start the external tool or write a temporary file, *)
(* step by step: the settings probe, the temporary file or directory, the *)
(* child processes and how each ends, the clean-up.                       *)

MaxRequests == 2   \* operations made one after the other

CheckTimeout == 30
ProbeTimeout == 5

ToolOperations ==
    {"run_ruff_format", "run_ruff_check", "_run_ruff", "_append_render_method",
     "lint_file", "_check_ruff_available"}

\* what the operation creates: tempfile.TemporaryDirectory() as a context
\* manager, NamedTemporaryFile(delete=False), or nothing
TempKind(operation) ==
    IF operation \in {"run_ruff_format", "lint_file"} THEN "directory"
    ELSE IF operation = "_check_ruff_available" THEN "none"
    ELSE "file"

\* the timeout argument of subprocess.run, None when it has none
Timeout(operation, purpose) ==
    IF operation \in {"run_ruff_check", "_run_ruff"} THEN <<CheckTimeout>>
    ELSE IF operation = "_check_ruff_available" THEN <<ProbeTimeout>>
    ELSE None

\* the child processes the operation starts once its file is written, in order
Runs(operation, should_sort_imports) ==
    IF operation = "_append_render_method" THEN <<>>
    ELSE IF operation = "run_ruff_format"
    THEN (IF should_sort_imports THEN <<"sort-imports">> ELSE <<>>) \o <<"format">>
    ELSE IF operation = "_check_ruff_available" THEN <<"available">>
    ELSE <<"check">>

\* an exception of the step reaches the caller
Propagates(operation) ==
    operation \in {"run_ruff_format", "run_ruff_check", "lint_file"}

Invocation(purpose, timeout) == [purpose |-> purpose, timeout |-> timeout]

\* the processes started after the file was written
PurposesRun == SelectSeq(invoked, LAMBDA i : i.purpose # "settings")

InitTool ==
    /\ api \in ToolOperations
    /\ request = 1
    /\ temp = {}
    /\ invoked = <<>>
    /\ content = <<>>
    /\ first_input = content
    /\ ruff_available = TRUE
    /\ attrs = <<>>
    /\ else_if_first = FALSE
    /\ Idle /\ AttributeIdle /\ CommandIdle /\ BatchIdle /\ FileIdle /\ ExtractIdle

ToolFrame ==
    UNCHANGED <<content, round, parsed, source_lines, lines, origin,
                formatted_parts, spans, needs_newline_at_end_of_file, result,
                first_input, errors_logged, lint_vars, template_vars,
                attribute_vars, command_vars, batch_vars, file_vars, extract_vars>>

\* the operation is over: it returned, or raised
ToolDone(how) ==
    /\ pc' = "done"
    /\ outcome' = how

\* run_ruff_format calls is_isort_configured first: a child process
\* without a timeout
SettingsProbe ==
    /\ api = "run_ruff_format" /\ pc = "start"
    /\ invoked' = Append(invoked, Invocation("settings", None))
    /\ pc' = "probing"
    /\ ToolFrame /\ UNCHANGED <<api, request, temp, outcome>>

\* the probe ends, or cannot be started: is_isort_configured swallows it
SettingsProbeEnded ==
    /\ api = "run_ruff_format" /\ pc = "probing"
    /\ pc' = "create"
    /\ ToolFrame /\ UNCHANGED <<api, request, temp, invoked, outcome>>

\* the other operations go straight to their temporary file
NoProbe ==
    /\ api \in ToolOperations \ {"run_ruff_format"} /\ pc = "start"
    /\ pc' = IF TempKind(api) = "none" THEN "run" ELSE "create"
    /\ ToolFrame /\ UNCHANGED <<api, request, temp, invoked, outcome>>

\* tempfile.TemporaryDirectory() / tempfile.NamedTemporaryFile(delete=False)
CreateTemp ==
    /\ api \in ToolOperations /\ pc = "create"
    /\ temp' = temp \cup {<<request, TempKind(api)>>}
    /\ pc' = "writing"
    /\ ToolFrame /\ UNCHANGED <<api, request, invoked, outcome>>

\* target_file.write_text(source) / f.write(content)
WriteTemp ==
    /\ api \in ToolOperations /\ pc = "writing"
    /\ pc' = "run"
    /\ ToolFrame /\ UNCHANGED <<api, request, temp, invoked, outcome>>

\* the write raises (a text the encoding cannot hold, a full disk): the
\* context manager removes a directory; a file made with delete=False is
\* only closed, the try whose finally unlinks it was not entered yet
WriteTempRaised ==
    /\ api \in ToolOperations /\ pc = "writing"
    /\ temp' = IF TempKind(api) = "directory"
               THEN temp \ {<<request, "directory">>} ELSE temp
    /\ ToolDone(IF api = "_run_ruff" \/ Propagates(api) THEN "raised" ELSE "returned")
    /\ ToolFrame /\ UNCHANGED <<api, request, invoked>>

\* subprocess.run(...): the next child process is started and awaited
RunTool ==
    \E should_sort_imports \in BOOLEAN :
        LET runs == Runs(api, should_sort_imports /\ PurposesRun = <<>>)
            left == IF PurposesRun # <<>> /\ PurposesRun[Len(PurposesRun)].purpose = "sort-imports"
                    THEN <<"format">>
                    ELSE IF PurposesRun = <<>> THEN runs ELSE <<>>
        IN /\ api \in ToolOperations /\ pc = "run"
           /\ left # <<>>
           /\ invoked' = Append(invoked, Invocation(Head(left), Timeout(api, Head(left))))
           /\ pc' = "waiting"
           /\ ToolFrame /\ UNCHANGED <<api, request, temp, outcome>>

\* the clean-up every way out of the process step goes through: the exit
\* of the with block of the directory, the finally that unlinks the file
CleanedUp == temp \ {<<request, TempKind(api)>>}

\* the awaited process exits: the next one is started, or the operation returns
ToolExited ==
    /\ api \in ToolOperations /\ pc = "waiting"
    /\ IF api = "run_ruff_format" /\ invoked[Len(invoked)].purpose = "sort-imports"
       THEN pc' = "run" /\ UNCHANGED <<temp, outcome>>
       ELSE temp' = CleanedUp /\ ToolDone("returned")
    /\ ToolFrame /\ UNCHANGED <<api, request, invoked>>

\* the executable is missing, or its output cannot be decoded: subprocess.run
\* raises; _run_ruff and _check_ruff_available catch it
ToolRaised ==
    /\ api \in ToolOperations /\ pc = "waiting"
    /\ temp' = CleanedUp
    /\ ToolDone(IF Propagates(api) THEN "raised" ELSE "returned")
    /\ ToolFrame /\ UNCHANGED <<api, request, invoked>>

\* the process never exits: with a timeout subprocess.run raises
\* TimeoutExpired when it runs out; without one the call never comes back
\* and no step follows
ToolTimedOut ==
    /\ api \in ToolOperations /\ pc = "waiting"
    /\ invoked[Len(invoked)].timeout # None
    /\ temp' = CleanedUp
    /\ ToolDone(IF Propagates(api) THEN "raised" ELSE "returned")
    /\ ToolFrame /\ UNCHANGED <<api, request, invoked>>

\* _append_render_method starts no process: construct_ast returns or
\* raises, the finally unlinks the file, every exception is caught
Synthesized ==
    /\ api = "_append_render_method" /\ pc = "run"
    /\ temp' = CleanedUp
    /\ ToolDone("returned")
    /\ ToolFrame /\ UNCHANGED <<api, request, invoked>>

\* the caller goes on to its next operation
NextRequest ==
    /\ api \in ToolOperations /\ pc = "done" /\ request < MaxRequests
    /\ \E operation \in ToolOperations : api' = operation
    /\ request' = request + 1
    /\ invoked' = <<>>
    /\ pc' = "start"
    /\ outcome' = "none"
    /\ ToolFrame /\ UNCHANGED temp

NextTool ==
    \/ SettingsProbe
    \/ SettingsProbeEnded
    \/ NoProbe
    \/ CreateTemp
    \/ WriteTemp
    \/ WriteTempRaised
    \/ RunTool
    \/ ToolExited
    \/ ToolRaised
    \/ ToolTimedOut
    \/ Synthesized
    \/ NextRequest

SpecTool == InitTool /\ [][NextTool]_vars

---------------------------------------------------------------------------
(* src/ruff_cgx.py: format_file of the single-module command line, which  *)
(* formats the code with black and splices the two regions itself.        *)

\* a string spliced into a list of lines: one element per character
Characters(text) == [k \in 1..Len(text) |-> <<text[k]>>]

\* format_script(script_node, lines, mode): the lines between the markers;
\* the formatted source is returned as a string, the original lines as a
\* list when black raises NothingChanged
black_format_script(script_node, src_lines) ==
    LET r == get_script_range(script_node)
        source == Join(Slice(src_lines, r[1], r[2]))
        formatted_source == run_ruff_format(source)
    IN Part(IF formatted_source = source \/ ~HasText(source)
            THEN Slice(src_lines, r[1], r[2])
            ELSE Characters(formatted_source),
            r[1], r[2])

\* parser.root.child_with_tag("template"): the first markup node of the root
child_with_tag_template(p) == Head(p.template_nodes)

\* the replacements of format_file, in the order it splices them: the
\* script first in both branches of "if script_location[0] > template_location[0]"
black_parts(c) ==
    LET p == parse_cgx_file(c)
    IN <<black_format_script(p.script_node, splitlines(c)),
         format_template(child_with_tag_template(p))>>

\* a code region with the markers on lines of their own
BlackScripts ==
    {<<ScriptOpen, NL>> \o body \o <<NL, ScriptClose>> :
        body \in {<<"x=1">>, <<"y = 2">>, <<"x=1", NL, NL, "y = 2">>,
                  <<"y = 2", NL, NL, "x = 1">>, <<"y = 2", NL, "x=1">>}}

BlackTemplates ==
    {<<ElemOpen, NL, SP, ElemSelf, NL, ElemClose>>,
     <<ElemOpen, ElemSelfRaw, ElemClose>>,
     <<ElemOpen, NL, ElemSelfRaw, ElemSelfRaw, NL, ElemClose>>}

\* one code region and one markup region, in either order
BlackDocuments ==
    {x[1] \o sep \o x[2] \o tail :
        x \in (BlackScripts \X BlackTemplates) \cup (BlackTemplates \X BlackScripts),
        sep \in {<<NL>>, <<NL, NL>>},
        tail \in {<<>>, <<NL>>}}

InitBlackFile ==
    /\ api = "ruff_cgx.format_file"
    /\ content \in BlackDocuments
    /\ first_input = content
    /\ ruff_available = TRUE
    /\ attrs = <<>>
    /\ else_if_first = FALSE
    /\ Idle /\ RestIdle

BlackFileFrame ==
    UNCHANGED <<api, content, round, origin, needs_newline_at_end_of_file,
                first_input, errors_logged, lint_vars, template_vars, rest_vars>>

\* the file is parsed and read, both regions are formatted
BlackFormatRegions ==
    /\ api = "ruff_cgx.format_file" /\ pc = "start"
    /\ parsed' = parse_cgx_file(content)
    /\ source_lines' = splitlines(content)
    /\ lines' = splitlines(content)
    /\ formatted_parts' = black_parts(content)
    /\ spans' = [k \in 1..2 |-> <<black_parts(content)[k].start,
                                  black_parts(content)[k].end>>]
    /\ pc' = "splicing"
    /\ BlackFileFrame /\ UNCHANGED <<result, outcome>>

\* lines[location[0] : location[1]] = content, for the next region
BlackSplice ==
    /\ api = "ruff_cgx.format_file" /\ pc = "splicing"
    /\ formatted_parts # <<>>
    /\ lines' = SliceAssign(lines, Head(formatted_parts).start,
                            Head(formatted_parts).end,
                            Head(formatted_parts).replacement)
    /\ formatted_parts' = Tail(formatted_parts)
    /\ BlackFileFrame
    /\ UNCHANGED <<pc, parsed, source_lines, spans, result, outcome>>

\* "if not write: return lines"
BlackReturn ==
    /\ api = "ruff_cgx.format_file" /\ pc = "splicing"
    /\ formatted_parts = <<>>
    /\ result' = Join(lines)
    /\ outcome' = "returned"
    /\ pc' = "done"
    /\ BlackFileFrame
    /\ UNCHANGED <<parsed, source_lines, lines, formatted_parts, spans>>

NextBlackFile == BlackFormatRegions \/ BlackSplice \/ BlackReturn

SpecBlackFile == InitBlackFile /\ [][NextBlackFile]_vars

---------------------------------------------------------------------------
(* What the claims speak about. *)

FirstParse == parse_cgx_file(first_input)

\* the parser closed every node of the document, and there is at least one region
ValidDocument(c) ==
    LET p == parse_cgx_file(c) IN
    /\ p.script_node.kind = "script" \/ p.template_nodes # <<>>
    /\ p.script_node.kind = "script" => p.script_node.end # None
    /\ \A k \in 1..Len(p.template_nodes) :
          p.template_nodes[k].kind = "element" /\ p.template_nodes[k].end # None

HasCode(p) == p.script_node.kind = "script" /\ p.script_node.children # <<>>

\* the code starts on the line of the opening marker
CodeStartsInline(p) == HasCode(p) /\ Head(p.script_node.children[1]) # NL

\* the closing marker shares its line with code: closing_tag_inline of utils.py
closing_tag_inline(p) == HasCode(p) /\ p.script_node.end[2] > 0

CountOf(s, toks) == Cardinality({k \in 1..Len(s) : s[k] \in toks})

\* 0-indexed line i lies in no span
OutsideSpans(i) == \A k \in 1..Len(spans) : ~(spans[k][1] <= i /\ i < spans[k][2])

\* format_cgx_content returned after the last splice
Reassembled ==
    /\ pc = "done" /\ outcome = "returned"
    /\ round \notin errors_logged
    /\ spans # <<>>

---------------------------------------------------------------------------
(* The claims. *)

\* C1: for every valid document, format_cgx_content applied to its own output
\* returns that output unchanged (the external formatter being idempotent),
\* also when code shares a line with a script marker and when the document
\* does not end with a newline.
C1_Idempotent ==
    (/\ api = "format_cgx_content" /\ round = 2 /\ pc = "done"
     /\ 1 \notin errors_logged
     /\ ValidDocument(first_input))
    => result = content

C3_NewlineExactlyWhenMissing ==
    (/\ api \in {"format_cgx_content", "format_file"}
     /\ pc = "splicing" /\ formatted_parts = <<>>)
    => (needs_newline_at_end_of_file <=> ~EndsWithNewline(Join(lines)))

\* C4: format_cgx_content never raises and returns either the input unchanged
\* (no script node, or an exception was caught) or the text with every part
\* spliced.
C4_FailSafe ==
    (api = "format_cgx_content" /\ pc = "done") =>
        /\ outcome = "returned"
        /\ IF round \in errors_logged \/ parsed.script_node.kind = "none"
           THEN result = content
           ELSE /\ formatted_parts = <<>>
                /\ Len(spans) = 1 + Len(parsed.template_nodes)
                /\ result = Join(lines)
                /\ needs_newline_at_end_of_file => lines[Len(lines)] = <<NL>>

\* C4 witness: an exception was caught after the parse, on a document that
\* formatting would change.
C4_Witness ==
    /\ api = "format_cgx_content" /\ pc = "done" /\ round = 1
    /\ 1 \in errors_logged
    /\ parsed.script_node.kind = "script"
    /\ parsed.script_node.children # <<>>
    /\ parsed.template_nodes # <<>>
    /\ result = content

\* C5: a document with markup regions and no code region is formatted all the
\* same: nothing is raised and the output ends with a newline.
C5_MarkupOnlyFormatted ==
    (/\ api \in {"format_cgx_content", "format_file"}
     /\ pc = "done" /\ round = 1
     /\ parsed.script_node.kind = "none"
     /\ parsed.template_nodes # <<>>
     /\ ValidDocument(content))
    => /\ outcome = "returned"
       /\ EndsWithNewline(result)

\* C6: every line that carries code of the code region is, with its code, at
\* the same line number of the text handed to the checker, and a Diagnostic
\* is at the checker's row minus one.
C6_CodeLinesKeepTheirNumber ==
    (/\ api = "lint_cgx_file" /\ pc = "done" /\ outcome = "returned"
     /\ virtual_content # <<>>
     /\ ValidDocument(content))
    => LET src == splitlines(content)
           virtual == splitlines(virtual_content)
           code(l) == SelectSeq(l, LAMBDA t : t \in Stmts)
       IN /\ \A k \in 1..Len(src) :
                code(src[k]) # <<>> => code(virtual[k]) = code(src[k])
          /\ Len(ruff_diagnostics) > 0 =>
                /\ Len(diagnostics) = Len(ruff_diagnostics)
                /\ \A d \in 1..Len(diagnostics) :
                      diagnostics[d].line = ruff_diagnostics[d].row - 1

\* C7: code that starts on the line of the opening marker is moved: the output
\* has the marker alone on its line, the formatted code from the next line on,
\* and formatting the output again changes nothing.
C7_InlineCodeNormalized ==
    (/\ api = "format_cgx_content" /\ pc = "done"
     /\ 1 \notin errors_logged
     /\ ValidDocument(first_input)
     /\ CodeStartsInline(FirstParse))
    => IF round = 1
       THEN \E k \in 1..(Len(lines) - 1) :
               /\ lines[k] = <<ScriptOpen, NL>>
               /\ Len(lines[k + 1]) = 2
               /\ lines[k + 1][1] \in Stmts
               /\ FormatStmt(lines[k + 1][1]) = lines[k + 1][1]
       ELSE result = content

\* C8: when the closing marker shares its line with code, the replaced span
\* includes that line: every statement is in the output once and the closing
\* marker is alone on its line.
C8_ClosingMarkerLineReplaced ==
    (/\ api = "format_cgx_content" /\ pc = "done" /\ round = 1
     /\ 1 \notin errors_logged
     /\ ValidDocument(content)
     /\ closing_tag_inline(parsed))
    => /\ spans[1][2] > parsed.script_node.end[1] - 1
       /\ CountOf(result, Stmts) = CountOf(content, Stmts)
       /\ \E k \in 1..Len(lines) : Head(lines[k]) = ScriptClose

\* the names of an element written in one fixed order, whatever order the
\* input has them in
NameList ==
    <<AttrIs, AttrFor, AttrIf, AttrElseIf, AttrId, AttrSlot, AttrValue,
      AttrBoundValue, AttrDisabled, AttrClass, AttrClick, AttrModel>>
InOneOrder(names) ==
    SelectSeq(NameList, LAMBDA a : \E k \in 1..Len(names) : names[k] = a)

\* no two attributes of the element have the same sort key
DistinctKeys(names, elif_first) ==
    \A j, k \in 1..Len(names) :
        KeyTable[elif_first][names[j]] = KeyTable[elif_first][names[k]] => j = k

ExampleOrder == <<AttrClass, AttrDisabled, AttrBoundValue, AttrClick>>

\* C9 as stated: the emitted order depends only on the set of names, it is
\* what the same names give in any other input order.
C9_OrderIndependentOfInput ==
    (api = "format_node" /\ pc = "done" /\ Len(attrs) >= 2)
    => emitted = attribute_order(InOneOrder(attrs), else_if_first)

\* C9 amended: the emitted order depends only on the set of names when no
\* two attributes have the same sort key; class, disabled, :value, @click
\* come out in this order from every input order.
C9_OrderIndependentForDistinctKeys ==
    (api = "format_node" /\ pc = "done" /\ Len(attrs) >= 2)
    => /\ DistinctKeys(attrs, else_if_first) =>
             emitted = attribute_order(InOneOrder(attrs), else_if_first)
       /\ InOneOrder(attrs) = InOneOrder(ExampleOrder) => emitted = ExampleOrder

\* C9 witness: the four attributes of the example, written in reverse.
C9_Witness ==
    /\ api = "format_node" /\ pc = "done"
    /\ attrs = <<AttrClick, AttrBoundValue, AttrDisabled, AttrClass>>
    /\ emitted = ExampleOrder

\* the bucket of a name: v-is, v-for, the conditionals, id/ref/key, the slot
\* directives, bound and plain attributes, the events, any other directive
Bucket(a) ==
    IF startswith(a, <<"v", "-", "i", "s">>) THEN 0
    ELSE IF startswith(a, <<"v", "-", "f", "o", "r">>) THEN 1
    ELSE IF startswith(a, <<"v", "-", "i", "f">>) \/ startswith(a, <<"v", "-", "e", "l", "s", "e">>) THEN 2
    ELSE IF a \in {<<"i", "d">>, <<"r", "e", "f">>, <<"k", "e", "y">>} THEN 3
    ELSE IF startswith(a, <<"v", "-", "s", "l", "o", "t">>) \/ startswith(a, <<"#">>) THEN 4
    ELSE IF startswith(a, <<"v", "-", "o", "n">>) \/ startswith(a, <<"@">>) THEN 6
    ELSE IF startswith(a, <<"v", "-", "b", "i", "n", "d">>) \/ startswith(a, <<":">>)
            \/ ~startswith(a, <<"v", "-">>) THEN 5
    ELSE 7

BucketOf == [a \in AttrNames |-> Bucket(a)]

Position(names, a) == CHOOSE k \in 1..Len(names) : names[k] = a

\* C11 as stated: attributes of one bucket are emitted in their input order.
C11_InputOrderWithinBucket ==
    (api = "format_node" /\ pc = "done" /\ Len(attrs) >= 2)
    => \A i, j \in 1..Len(emitted) :
          (i < j /\ BucketOf[emitted[i]] = BucketOf[emitted[j]])
          => Position(attrs, emitted[i]) < Position(attrs, emitted[j])

\* C11 amended: attributes of one bucket are emitted in ascending string
\* order of their sort keys, and those with equal keys in their input order.
C11_KeyOrderWithinBucket ==
    (api = "format_node" /\ pc = "done" /\ Len(attrs) >= 2)
    => \A i, j \in 1..Len(emitted) :
          (i < j /\ BucketOf[emitted[i]] = BucketOf[emitted[j]])
          => LET ki == KeyTable[else_if_first][emitted[i]]
                 kj == KeyTable[else_if_first][emitted[j]]
             IN \/ StrLess(ki, kj)
                \/ (ki = kj /\ Position(attrs, emitted[i]) < Position(attrs, emitted[j]))

\* C11 witness: four attributes of the bound-and-plain bucket, two of them
\* with one key, written in an order that is not the key order.
C11_Witness ==
    /\ api = "format_node" /\ pc = "done"
    /\ attrs = <<AttrDisabled, AttrValue, AttrBoundValue, AttrClass>>
    /\ emitted = <<AttrClass, AttrDisabled, AttrValue, AttrBoundValue>>

\* C12: the value of a slot directive (a key beginning with v-slot or #) is
\* never handed to the expression formatter and is emitted as it was in the
\* input; the values of bindings, events and other directives are formatted
\* as expressions.
C12_SlotValuesPassThrough ==
    (api = "format_attribute" /\ pc = "done" /\ value # PyTrue /\ HasText(value))
    => IF startswith(key, AttrVSlot) \/ startswith(key, <<"#">>)
       THEN /\ sent = <<>>
            /\ attribute_text = key \o <<EqualsQuote>> \o value \o <<Quote>>
       ELSE IsExpressionKey(key) => sent # <<>>

\* the last operation of the run with one of these names, 0 when there is none
LastCall(ops) == Max({0} \cup {k \in 1..Len(calls) : calls[k].op \in ops})

\* C13: get_ruff_command returns the value of the last set_ruff_command made
\* since the last reset if there is one, otherwise the current value of
\* RUFF_COMMAND if it is defined, otherwise "ruff"; set and reset leave the
\* environment variable alone.
C13_CommandPrecedence ==
    (api = "ruff_command" /\ calls[Len(calls)].op = "get_ruff_command")
    => LET last_set == LastCall({"set_ruff_command"})
           last_reset == LastCall({"reset_ruff_command"})
           last_environ == LastCall({"environ"})
       IN /\ environ = calls[last_environ].arg
          /\ got = IF last_set > last_reset THEN calls[last_set].arg
                   ELSE IF calls[last_environ].arg # None THEN calls[last_environ].arg
                   ELSE <<"ruff">>

\* C13 witness: a command was set while the environment variable was defined,
\* then reset, and get_ruff_command returned the environment's value.
C13_Witness ==
    /\ api = "ruff_command" /\ calls[Len(calls)].op = "get_ruff_command"
    /\ 0 < LastCall({"set_ruff_command"})
    /\ LastCall({"set_ruff_command"}) < LastCall({"reset_ruff_command"})
    /\ environ = <<"/env/ruff">>
    /\ got = environ

\* C14: every child process is started with the executable get_ruff_command()
\* returns at that moment.
C14_EveryProcessUsesConfiguredCommand ==
    api = "ruff_command"
    => \A k \in 1..Len(started) : started[k].executable = started[k].configured

\* C15: in every lint entry point, when the markup compiler fails, or there
\* is no top-level class, or the class has no render method, the text for
\* the checker is exactly the code region among commented lines, and the
\* failure is not raised to the caller.
C15_SynthesisFailureDegrades ==
    (/\ api \in {"lint_cgx_file", "lint_file"} /\ pc = "done"
     /\ compiled \in {"raises", "no_class", "no_render"})
    => /\ outcome = "returned"
       /\ virtual_content = Join(modified_lines(content, parsed.script_node))

\* C16: every line appended to the text for the checker, the subclass
\* declaration included, ends with the suppression marker, and no line of
\* the document carries one.
C16_AppendedLinesSuppressed ==
    (/\ api \in {"lint_cgx_file", "lint_file"} /\ pc = "done"
     /\ compiled = "render" /\ virtual_content # <<>>)
    => LET virtual == splitlines(virtual_content)
           n == Len(splitlines(content))
       IN /\ Len(virtual) > n
          /\ \A k \in (n + 1)..Len(virtual) :
                /\ Len(virtual[k]) >= 2
                /\ virtual[k][Len(virtual[k]) - 1] = Noqa
                /\ virtual[k][Len(virtual[k])] = NL
          /\ \A k \in 1..n : \A j \in 1..Len(virtual[k]) : virtual[k][j] # Noqa

Flagged(i) ==
    \E d \in 1..Len(diagnostics) :
        /\ diagnostics[d].code = "F401"
        /\ diagnostics[d].line = LineOf(content, i) - 1
        /\ diagnostics[d].column = ColOf(content, i)

\* C18: for every document the checker reported on, a name imported in the
\* code and referred to only from a bound expression of the markup is
\* referred to in the text handed to the checker and is not flagged as
\* unused, and an imported name referred to nowhere is flagged.
C18_MarkupReferencesSeen ==
    (/\ api = "lint_cgx_file" /\ pc = "done"
     /\ started # <<>> /\ started[Len(started)].ended = "exit")
    => \A i \in 1..Len(content) : \A name \in Imported(content[i]) :
          IF \E k \in 1..Len(MarkupExpressions(content)) :
                 name \in Referenced(MarkupExpressions(content)[k])
          THEN /\ \E k \in 1..Len(virtual_content) :
                     name \in Referenced(virtual_content[k])
               /\ ~Flagged(i)
          ELSE Flagged(i)

\* C19: in a run of the command line over several files, no file with a
\* missing or empty code region, a synthesis failure, an unavailable tool or
\* a parse failure stops the loop: when main ends, it came to every file of
\* the path list, and only the file itself failed.
C19_BatchGoesOn ==
    (api \in {"format", "check"} /\ pc = "done")
    => /\ Len(handled) = Len(paths)
       /\ outcome = "returned"

\* C20: in the black-based command line, no file is formatted or written
\* before a BadBlackConfig is raised.
C20_BadConfigBeforeAnyFile ==
    api = "black"
    => \A i, j \in 1..Len(handled) :
          (i < j /\ handled[j].result = "BadBlackConfig")
          => handled[i].result \notin {"0", "1"}

RECURSIVE SpliceAll(_, _)
\* the lines after every part was spliced, in the order given
SpliceAll(ls, parts) ==
    IF parts = <<>> THEN ls
    ELSE SpliceAll(SliceAssign(ls, Head(parts).start, Head(parts).end,
                               Head(parts).replacement),
                   Tail(parts))

\* the text format_file writes for a document it can format
WouldProduce(c) ==
    LET ls == splitlines(c)
        out == SpliceAll(ls, SpliceOrder(AllParts(parse_cgx_file(c), ls)))
    IN Join(IF NeedsNewline(ls) THEN Append(out, <<NL>>) ELSE out)

\* C21: format_file(path, check=True), for a .cgx file, returns 1 exactly when
\* formatting would produce a text different from the file's content, and 0
\* otherwise; it returns 0 for a file that holds the output of a previous format.
C21_CheckReportsChange ==
    (/\ api = "format_file" /\ suffix = ".cgx"
     /\ check /\ pc = "done" /\ outcome = "returned")
    => /\ returned \in {"0", "1"}
       /\ returned = "1" <=> WouldProduce(content) # content
       /\ round = 2 => returned = "0"


Extracted == api = "extract_script_content" /\ pc = "done"

\* the text is trimmed and ends with exactly one line end
TrimmedOneNewline(code) ==
    /\ code # <<>>
    /\ code[Len(code)] = NL
    /\ LET text == SubSeq(code, 1, Len(code) - 1)
       IN strip(text) = text

FirstCodeLine(script_node) ==
    LET data == script_node.children[1]
        first == Min({k \in 1..Len(data) : data[k] \notin {NL, SP}})
    IN (script_node.location[1] - 1)
       + Cardinality({k \in 1..(first - 1) : data[k] = NL})

\* C23: for a code node with content, start_line is the 0-indexed document
\* line of the first character of python_code, also when blank lines or spaces
\* precede the code; end_line is the 0-indexed line of the closing marker.
C23_StartLineIsFirstCodeLine ==
    (/\ Extracted
     /\ given_node.children # <<>>
     /\ HasText(given_node.children[1]))
    => /\ script_content[1].start_line = FirstCodeLine(given_node)
       /\ script_content[1].end_line = given_node.end[1] - 1


\* C24: every child process the format and lint operations start is given a
\* timeout, so that none of them is awaited without bound when the tool
\* never returns.
C24_EveryInvocationBounded ==
    api \in ToolOperations =>
        \A k \in 1..Len(invoked) : invoked[k].timeout # None

\* C25: once an operation has returned or raised, no temporary file or
\* directory it created exists any more, whichever way it ended: normally,
\* by a timeout, by a missing executable or undecodable output, or by a
\* failure while the temporary file was written.
C25_NoTempLeftBehind ==
    (api \in ToolOperations /\ pc = "done") => temp = {}


RECURSIVE MergeFrom(_, _, _)
\* one pass over the original lines: the lines up to the next part, its
\* replacement, and on from its end (an empty span replaces nothing)
MergeFrom(src_lines, parts, pos) ==
    IF parts = <<>> THEN Slice(src_lines, pos, Len(src_lines))
    ELSE Slice(src_lines, pos, Head(parts).start)
         \o Head(parts).replacement
         \o MergeFrom(src_lines, Tail(parts),
                      Max({pos, Head(parts).start, Head(parts).end}))

\* a single sorted merge of the replacements into the original lines
SortedMerge(src_lines, parts) == MergeFrom(src_lines, sorted_by_start(parts), 0)

\* C26: the splices, in the order the code applies them, give the same text
\* as a single sorted merge of the replacements into the original lines,
\* whatever the order of the regions in the document and whatever the line
\* counts of the replacements.
C26_SpliceIsSortedMerge ==
    (api = "ruff_cgx.format_file" /\ pc = "done")
    => result = Join(SortedMerge(source_lines, black_parts(content)))

\* the spans of the regions do not overlap
SpansDisjoint ==
    \A a \in 1..Len(spans), b \in 1..Len(spans) :
        /\ spans[a][1] <= spans[a][2]
        /\ a # b => (spans[a][2] <= spans[b][1] \/ spans[b][2] <= spans[a][1])

\* format_cgx_content splices from the last region to the first: with
\* spans that do not overlap its result is the sorted merge
SpliceIsSortedMergeOfContent ==
    (Reassembled /\ api = "format_cgx_content" /\ SpansDisjoint)
    => result = Join(LET merged == SortedMerge(source_lines, AllParts(parsed, source_lines))
                     IN IF NeedsNewline(source_lines)
                        THEN Append(merged, <<NL>>) ELSE merged)

\* C27: for every parsed document the spans of the code region and of the
\* markup regions are pairwise disjoint, lie within the lines of the document
\* and have their start not after their end, also when two root-level nodes,
\* or a markup node and a script marker, share a line.
C27_SpansDisjointWithinDocument ==
    (api = "format_cgx_content" /\ spans # <<>>)
    => /\ SpansDisjoint
       /\ \A k \in 1..Len(spans) :
             0 <= spans[k][1] /\ spans[k][2] <= Len(source_lines)


\* format_file is over, by a return or by an exception
FileDone == api = "format_file" /\ pc = "done"

\* format_file wrote the file: "if changed: ... fh.writelines(lines)"
Wrote == FileDone /\ outcome = "returned" /\ ~check /\ write /\ changed

\* C28: format_file never writes when check is true or write is false; with
\* write true it writes only when the formatted lines differ from the
\* content of the file; when it does not write, the file is as it was; with
\* check true it returns 0 or 1, otherwise 0, or the lines when write is false.
C28_WritesOnlyChanges ==
    FileDone =>
        /\ Wrote => (Join(lines) # content /\ disk = Join(lines))
        /\ ~Wrote => disk = content
        /\ outcome = "returned" =>
              returned \in (IF check THEN {"0", "1"}
                            ELSE IF write THEN {"0"} ELSE {"lines"})


\* the checker ran and printed its JSON list
CheckerReported ==
    /\ api = "lint_cgx_file" /\ pc = "done" /\ outcome = "returned"
    /\ started # <<>> /\ started[Len(started)].ended = "exit"

\* C29: for a list of n raw diagnostics _run_ruff returns n Diagnostics in
\* the same order, each at the raw row and column minus one, with severity
\* error or warning; an entry with a missing or null field does not make the
\* other entries disappear.
C29_OneDiagnosticPerEntry ==
    CheckerReported =>
        /\ Len(diagnostics) = Len(ruff_diagnostics)
        /\ \A k \in 1..Len(diagnostics) :
              /\ diagnostics[k].line = ruff_diagnostics[k].row - 1
              /\ diagnostics[k].column = ruff_diagnostics[k].column - 1
              /\ diagnostics[k].severity \in {"error", "warning"}


\* C30: lint_cgx_file returns a list of Diagnostics and never raises, whatever
\* the content and whatever its collaborators do: empty content, no code
\* region, a parse failure, a code node without an end position, any failure
\* of the checker.
C30_LintNeverRaises ==
    (api = "lint_cgx_file" /\ pc = "done") => outcome = "returned"

====
